---------------------------- MODULE Spec2Model ----------------------------
(***************************************************************************)
(* The symptom-keyed retrieval cache of src/src/routers/chat/llm/          *)
(* retrieval.py: cached_retrieve, its per-symptom tier, the union          *)
(* assembler, the exact joint retriever and the background refresher,      *)
(* running as request threads and daemon threads over one Redis store.     *)
(*                                                                         *)
(* A Python str is a sequence of one-character strings, so that strip(),   *)
(* lower(), sorted() and ",".join() are computed and not assumed.          *)
(***************************************************************************)
EXTENDS Naturals, Integers, Sequences, FiniteSets, TLC

(***************************************************************************)
(* Bounds of the model.                                                    *)
(***************************************************************************)
\* the number of cached_retrieve calls made in one behaviour
MaxRequests == 2
\* the number of faults in one behaviour: a call of a collaborator that raises
\* (oracle, cache get or setex, connect), or an entry that expires
MaxFaults == 2

\* the longest raw symptom list whose cache key is computed on its own
MaxSymptoms == 2

\* the longest list of records deduplicated on its own, and the largest limit
MaxItems == 3

\* the threads (requests, refreshers) that call a client accessor
MaxThreads == 3

(***************************************************************************)
(* Python strings.                                                         *)
(***************************************************************************)
\* code points of the characters used (ord)
Ord(c) ==
    CASE c = " " -> 32
      [] c = "," -> 44
      [] c = "A" -> 65
      [] c = "B" -> 66
      [] c = "a" -> 97
      [] c = "b" -> 98

\* a lower() that changes nothing
KeepChar(c) == c

\* str.lower() on one character
LowerChar(c) ==
    CASE c = "A" -> "a"
      [] c = "B" -> "b"
      [] OTHER -> c

\* str.lower()
Lower(s) == [i \in 1..Len(s) |-> LowerChar(s[i])]

IsSpace(c) == c = " "

RECURSIVE LStrip(_)
LStrip(s) ==
    IF s # <<>> /\ IsSpace(Head(s)) THEN LStrip(Tail(s)) ELSE s

RECURSIVE RStrip(_)
RStrip(s) ==
    IF s # <<>> /\ IsSpace(s[Len(s)]) THEN RStrip(SubSeq(s, 1, Len(s) - 1)) ELSE s

\* a label kept with its surrounding whitespace
NoStrip(s) == s

\* str.strip()
Strip(s) == RStrip(LStrip(s))

\* s < t for Python strings: lexicographic by code point
RECURSIVE StrLess(_, _)
StrLess(s, t) ==
    IF t = <<>> THEN FALSE
    ELSE IF s = <<>> THEN TRUE
    ELSE IF Ord(Head(s)) # Ord(Head(t)) THEN Ord(Head(s)) < Ord(Head(t))
    ELSE StrLess(Tail(s), Tail(t))

\* sorted(set of strings): the least element first
RECURSIVE SortedStrs(_)
SortedStrs(S) ==
    IF S = {} THEN <<>>
    ELSE LET m == CHOOSE x \in S : \A y \in S \ {x} : StrLess(x, y)
         IN  <<m>> \o SortedStrs(S \ {m})

\* sep.join(list)
RECURSIVE Join(_, _)
Join(sep, l) ==
    IF l = <<>> THEN <<>>
    ELSE IF Len(l) = 1 THEN l[1]
    ELSE l[1] \o sep \o Join(sep, Tail(l))

SeqRange(l) == {l[i] : i \in 1..Len(l)}

(***************************************************************************)
(* Normalisation and cache keys.                                           *)
(***************************************************************************)
\* _normalize_symptoms: {s.strip().lower() for s in symptoms if s and s.strip()}, sorted
_normalize_symptoms(symptoms) ==
    SortedStrs({Lower(Strip(symptoms[i])) :
                   i \in {j \in 1..Len(symptoms) :
                             symptoms[j] # <<>> /\ Strip(symptoms[j]) # <<>>}})

\* hashlib.md5(base).hexdigest(): taken collision-free on the strings of the model
Md5(base) == <<"md5", base>>

\* _key: "rag:{prefix}:{md5 of the comma-joined normalized set}:v2"
_key(prefix, symptoms) ==
    [scope |-> "rag", prefix |-> prefix,
     h |-> Md5(Join(<<",">>, _normalize_symptoms(symptoms))), ver |-> "v2"]

\* (symptom or "").strip().lower()
NormSym(symptom) == Lower(Strip(symptom))

\* a per-symptom key formatted as the combined keys are, without the "per" field
SingleKeySharedScope(prefix, symptom) ==
    [scope |-> "rag", prefix |-> prefix, h |-> Md5(NormSym(symptom)), ver |-> "v2"]

\* _single_key: "rag:per:{prefix}:{md5 of the normalized symptom}:v2"
_single_key(prefix, symptom) ==
    [scope |-> "rag:per", prefix |-> prefix, h |-> Md5(NormSym(symptom)), ver |-> "v2"]

(***************************************************************************)
(* The external oracles: an embedding service and a vector index.  Both    *)
(* are stateless here; the index holds a fixed set of documents and the    *)
(* similarity of a document depends on the text that was embedded.         *)
(***************************************************************************)
Sa == <<"a">>
Sb == <<"b">>

\* the three corpora, in the order the retrievers query them
Corpora == <<"ctcae", "questions", "triage_kb">>

\* the value of the index's "type" metadata for a corpus
TypeOf(corpus) == IF corpus = "questions" THEN "question" ELSE corpus

\* the documents of the index (metadata: type, symptoms, text, version, id)
Docs ==
    << [n |-> 1, type |-> "ctcae",     symptoms |-> {Sa},     text |-> "c1", version |-> "v5", id |-> ""],
       [n |-> 2, type |-> "ctcae",     symptoms |-> {Sb},     text |-> "c2", version |-> "v5", id |-> ""],
       [n |-> 3, type |-> "ctcae",     symptoms |-> {Sa, Sb}, text |-> "c3", version |-> "v5", id |-> ""],
       [n |-> 4, type |-> "question",  symptoms |-> {Sa},     text |-> "q1", version |-> "",   id |-> "Q1"],
       [n |-> 5, type |-> "question",  symptoms |-> {Sa, Sb}, text |-> "q2", version |-> "",   id |-> ""],
       [n |-> 6, type |-> "triage_kb", symptoms |-> {Sa, Sb}, text |-> "t1", version |-> "v1", id |-> ""] >>

\* getattr(m, "score", None) when a match carries no score
ScoreNone == -1

\* the embedding of a text: opaque, one vector per text
_embed(text) == <<"vec", text>>

\* the similarity the index reports for a document under a query vector
Similarity(vec, n) ==
    LET text == vec[2] IN
    CASE text = Sa ->
            (CASE n = 1 -> 9 [] n = 3 -> 5 [] n = 4 -> 8 [] n = 5 -> 4 [] n = 6 -> 6 [] OTHER -> 1)
      [] text = Sb ->
            (CASE n = 2 -> 8 [] n = 3 -> 7 [] n = 5 -> 6 [] n = 6 -> ScoreNone [] OTHER -> 1)
      [] text = <<"a", ",", " ", "b">> ->
            (CASE n = 3 -> 9 [] n = 1 -> 6 [] n = 2 -> 4 [] n = 5 -> 9 [] n = 4 -> 3 [] n = 6 -> 7 [] OTHER -> 1)
      [] OTHER -> 1

\* the first top_k elements of a list
Take(l, top_k) == SubSeq(l, 1, IF Len(l) < top_k THEN Len(l) ELSE top_k)

\* sorted(items, key=K, reverse=True): stable, so elements of equal key keep their order
SortedDesc(items, K(_)) ==
    LET n == Len(items)
        Rank(i) == 1 + Cardinality({j \in 1..n :
                          \/ K(items[j]) > K(items[i])
                          \/ K(items[j]) = K(items[i]) /\ j < i})
    IN  [p \in 1..n |-> items[CHOOSE i \in 1..n : Rank(i) = p]]

\* the elements of a list that satisfy a test, in order
SelectWhere(l, T(_)) ==
    LET idx == {i \in 1..Len(l) : T(l[i])}
        Pos(i) == Cardinality({j \in idx : j <= i})
    IN  [p \in 1..Cardinality(idx) |-> l[CHOOSE i \in idx : Pos(i) = p]]

\* idx.query(vector, top_k, filter type = t and symptoms $in syms): the matches
IndexQuery(vec, top_k, type, syms) ==
    LET Hit(d) == d.type = type /\ d.symptoms \cap SeqRange(syms) # {}
        Sim(d) == Similarity(vec, d.n)
    IN  Take(SortedDesc(SelectWhere(Docs, Hit), Sim), top_k)

\* the record a retriever builds from a match m of the corpus
MatchRecord(vec, d) ==
    [text |-> d.text, symptoms |-> d.symptoms, version |-> d.version,
     qid |-> d.id, score |-> Similarity(vec, d.n)]

\* the records of one corpus query
CorpusRecords(vec, top_k, corpus, syms) ==
    LET ms == IndexQuery(vec, top_k, TypeOf(corpus), syms)
    IN  [i \in 1..Len(ms) |-> MatchRecord(vec, ms[i])]

EmptyBundle == [ctcae |-> <<>>, questions |-> <<>>, triage_kb |-> <<>>]

\* the limit of a corpus in a call's keyword arguments
LimitOf(lim, corpus) ==
    CASE corpus = "ctcae" -> lim.k_ctcae
      [] corpus = "questions" -> lim.k_questions
      [] corpus = "triage_kb" -> lim.k_triage_kb

(***************************************************************************)
(* Calls to the collaborators, as each thread records them.                *)
(***************************************************************************)
NoKey == [scope |-> "", prefix |-> "", h |-> <<>>, ver |-> ""]
NoVal == [enc |-> "", body |-> EmptyBundle]

\* json.dumps(res)
JsonDumps(res) == [enc |-> "json", body |-> res]
\* whether json.loads(raw) returns (it raises on bytes that are no JSON)
JsonDecodable(raw) == raw.enc = "json"
\* json.loads(raw), for decodable bytes
JsonLoads(raw) == raw.body
\* bytes that are no JSON
Garbage == [enc |-> "garbage", body |-> EmptyBundle]

EvEmbed(text, ok) ==
    [op |-> "embed", key |-> NoKey, text |-> text, corpus |-> "", ttl |-> 0, val |-> NoVal, ok |-> ok]
EvQuery(corpus, ok) ==
    [op |-> "query", key |-> NoKey, text |-> <<>>, corpus |-> corpus, ttl |-> 0, val |-> NoVal, ok |-> ok]
EvGet(key, raw, ok) ==
    [op |-> "get", key |-> key, text |-> <<>>, corpus |-> "", ttl |-> 0, val |-> raw, ok |-> ok]
EvSetex(key, ttl, val, ok) ==
    [op |-> "setex", key |-> key, text |-> <<>>, corpus |-> "", ttl |-> ttl, val |-> val, ok |-> ok]
EvSpawn(key, ttl) ==
    [op |-> "spawn", key |-> key, text |-> <<>>, corpus |-> "", ttl |-> ttl, val |-> NoVal, ok |-> TRUE]

\* the number of events of a log that satisfy a test
CountWhere(log, T(_)) == Cardinality({i \in 1..Len(log) : T(log[i])})

(***************************************************************************)
(* The retrievers.  fail = 0: every oracle call returns; fail = i: the     *)
(* i-th oracle call of the run raises and the exception leaves the         *)
(* retriever.  The result holds the bundle, whether it raised, and the     *)
(* oracle calls made.                                                      *)
(***************************************************************************)
\* a retriever that queries every corpus
QueriedAll(lim) == Corpora

\* the corpora a retriever queries: those whose limit is > 0, in order
Queried(lim) ==
    LET Pos(c) == LimitOf(lim, c) > 0 IN SelectWhere(Corpora, Pos)

\* the number of oracle calls of a run in which none fails
NumOracleCalls(lim) == 1 + Len(Queried(lim))

\* embed the text once, then one filtered query per corpus with a limit > 0
OracleRun(text, syms, lim, fail) ==
    LET vec == _embed(text)
        qs == Queried(lim)
        made == IF fail = 0 THEN NumOracleCalls(lim) ELSE fail
        calls == [i \in 1..made |->
                     IF i = 1 THEN EvEmbed(text, fail # 1)
                     ELSE EvQuery(qs[i - 1], fail # i)]
        Rec(c) == IF LimitOf(lim, c) > 0
                  THEN CorpusRecords(vec, LimitOf(lim, c), c, syms)
                  ELSE <<>>
    IN  [raised |-> fail # 0,
         res |-> IF fail # 0 THEN EmptyBundle
                 ELSE [ctcae |-> Rec("ctcae"), questions |-> Rec("questions"),
                       triage_kb |-> Rec("triage_kb")],
         calls |-> calls]

\* a run that calls no oracle and returns empty lists
NoOracleRun == [raised |-> FALSE, res |-> EmptyBundle, calls |-> <<>>]

\* retrieve_for_single_symptom
retrieve_for_single_symptom(symptom, lim, fail) ==
    LET sym == NormSym(symptom) IN
    IF sym = <<>> THEN NoOracleRun
    ELSE OracleRun(sym, <<sym>>, lim, fail)

\* retrieve_for_symptoms
retrieve_for_symptoms(symptoms, lim, fail) ==
    IF symptoms = <<>> THEN NoOracleRun
    ELSE LET q_syms == _normalize_symptoms(symptoms)
         IN  OracleRun(Join(<<",", " ">>, q_syms), q_syms, lim, fail)

\* the fail positions a run of retrieve_for_symptoms can take
JointFails(symptoms, lim) ==
    IF symptoms = <<>> THEN {0} ELSE 0..NumOracleCalls(lim)

\* the fail positions a run of retrieve_for_single_symptom can take
SingleFails(symptom, lim) ==
    IF NormSym(symptom) = <<>> THEN {0} ELSE 0..NumOracleCalls(lim)

(***************************************************************************)
(* Union assembly.                                                         *)
(***************************************************************************)
\* a score_of that takes a missing score as it comes
score_as_is(x) == x.score

\* score_of: float(score), a missing score counting as 0.0
score_of(x) == IF x.score = ScoreNone THEN 0 ELSE x.score

\* the dedup key of a record: qid-or-text for questions, (text, version) otherwise
DedupKey(item, kind) ==
    IF kind = "questions"
    THEN <<IF item.qid # "" THEN item.qid ELSE item.text, "">>
    ELSE <<item.text, item.version>>

\* the loop of _dedupe_and_limit over the sorted items
RECURSIVE DedupeWalk(_, _, _, _, _)
DedupeWalk(rest, seen, ordered, top_k, kind) ==
    IF rest = <<>> THEN ordered
    ELSE LET item == Head(rest)
             key == DedupKey(item, kind)
         IN  IF key \in seen THEN DedupeWalk(Tail(rest), seen, ordered, top_k, kind)
             ELSE IF Len(ordered) + 1 >= top_k THEN Append(ordered, item)
             ELSE DedupeWalk(Tail(rest), seen \cup {key}, Append(ordered, item), top_k, kind)

\* _dedupe_and_limit
_dedupe_and_limit(items, top_k, kind) ==
    DedupeWalk(SortedDesc(items, score_of), {}, <<>>, top_k, kind)

\* the tail of _union_from_per_symptoms: dedupe and limit each accumulator
UnionFinal(accum, lim) ==
    [ctcae |-> _dedupe_and_limit(accum.ctcae, lim.k_ctcae, "ctcae"),
     questions |-> _dedupe_and_limit(accum.questions, lim.k_questions, "questions"),
     triage_kb |-> _dedupe_and_limit(accum.triage_kb, lim.k_triage_kb, "triage_kb")]

\* accum.extend(per.get(corpus, [])) for the three corpora
Extend(accum, per) ==
    [ctcae |-> accum.ctcae \o per.ctcae,
     questions |-> accum.questions \o per.questions,
     triage_kb |-> accum.triage_kb \o per.triage_kb]

(***************************************************************************)
(* The inputs of the calls.                                                *)
(***************************************************************************)
\* the raw symptom lists passed to cached_retrieve
RawInputs ==
    { <<>>,
      << <<" ">> >>,
      << <<" ", "A">> >>,
      << <<"B">>, <<"a", " ">> >> }

Lim(c, q, t) == [k_ctcae |-> c, k_questions |-> q, k_triage_kb |-> t]

\* the keyword arguments of the calls: some corpora only, as ContextLoader asks
CallKinds == { [lim |-> Lim(2, 0, 0), ttl |-> 1800], [lim |-> Lim(0, 1, 1), ttl |-> 3600] }

Requests == 1..MaxRequests

(***************************************************************************)
(* State.                                                                  *)
(***************************************************************************)
VARIABLES
    redisUrl,   \* REDIS_URL is set and the redis library imported
    cache,      \* the module global _cache: "None" or "client"
    store,      \* the Redis store: key -> [raw, ttl, src]; src records who computed raw
    req,        \* the cached_retrieve calls
    bg,         \* the daemon thread each call may have started
    faults,     \* the number of faults so far (failing calls, expired entries)
    keys,       \* two raw symptom lists and the cache keys computed for them
    app,        \* a function of the module applied on its own: arguments and result
    lazy        \* the lazily initialized clients and the threads that ask for them

vars == <<redisUrl, cache, store, req, bg, faults, keys, app, lazy>>

\* the state of the calls of cached_retrieve
callVars == <<redisUrl, cache, store, req, bg, faults>>

NoSrc == [kind |-> "", syms |-> <<>>, lim |-> Lim(0, 0, 0)]
Src(kind, syms, lim) == [kind |-> kind, syms |-> syms, lim |-> lim]

NoResult == [kind |-> "none", val |-> EmptyBundle, via |-> "", src |-> NoSrc]

\* a call not yet made; cache is the local variable of line 346
IdleReq ==
    [pc |-> "idle", symptoms |-> <<>>, lim |-> Lim(0, 0, 0), ttl |-> 0, cache |-> "None",
     i |-> 0, accum |-> EmptyBundle, union_res |-> EmptyBundle,
     result |-> NoResult, log |-> <<>>]

\* no thread; a thread holds the arguments its closure captured
NoBg ==
    [pc |-> "none", symptoms |-> <<>>, combined_key |-> NoKey, ttl |-> 0,
     lim |-> Lim(0, 0, 0), res |-> EmptyBundle, log |-> <<>>]

\* no key computed apart from a call
NoKeys == [x |-> <<>>, y |-> <<>>, kx |-> NoKey, ky |-> NoKey, computed |-> FALSE]

\* no function applied on its own, no accessor called on its own
NoApp == [fn |-> "none"]
NoLazy == [pc |-> <<>>]

\* the keys under which the store may hold undecodable bytes at the start
GarbageKeys == { _key("both", << <<"a">> >>), _single_key("both", <<"a">>) }

EmptyStore == [k \in {} |-> 0]

Init ==
    /\ redisUrl \in BOOLEAN
    /\ cache = "None"
    /\ store \in {EmptyStore,
                  [k \in GarbageKeys |->
                      [raw |-> Garbage, ttl |-> 3600, src |-> Src("garbage", <<>>, Lim(0, 0, 0))]]}
    /\ req = [r \in Requests |-> IdleReq]
    /\ bg = [r \in Requests |-> NoBg]
    /\ faults = 0
    /\ keys = NoKeys
    /\ app = NoApp
    /\ lazy = NoLazy

(***************************************************************************)
(* The cache backend.                                                      *)
(***************************************************************************)
\* cache.setex(key, ttl, value) on the store
Setex(st, key, ttl, raw, src) ==
    [k \in DOMAIN st \cup {key} |->
        IF k = key THEN [raw |-> raw, ttl |-> ttl, src |-> src] ELSE st[k]]

\* a store that is never made
SetexDropped(st, key, ttl, raw, src, ok) == st

\* a setex that raised and took the entry with it
SetexFailureDeletes(st, key, ttl, raw, src, ok) ==
    IF ok THEN Setex(st, key, ttl, raw, src) ELSE [j \in DOMAIN st \ {key} |-> st[j]]

\* the store after a setex that returned (ok) or raised
AfterSetex(st, key, ttl, raw, src, ok) ==
    IF ok THEN Setex(st, key, ttl, raw, src) ELSE st

\* a setex whose exception is not caught
SetexUncaught(ok) == ~ok

\* try: cache.setex(...) / except: logged.  Whether the exception of a failed
\* setex leaves the try statement around it: never
SetexSurfaces(ok) == FALSE

\* a get whose exception is not caught
CacheGetUncaught(st, key, ok) ==
    [raised |-> ~ok,
     raw |-> IF ok /\ key \in DOMAIN st THEN st[key].raw ELSE NoVal,
     src |-> IF ok /\ key \in DOMAIN st THEN st[key].src ELSE NoSrc]

\* try: raw = cache.get(key) / except: raw = None.  The bytes read, none (NoVal)
\* when the key is absent or get raised; the exception is logged and not raised
CacheGet(st, key, ok) ==
    [raised |-> FALSE,
     raw |-> IF ok /\ key \in DOMAIN st THEN st[key].raw ELSE NoVal,
     src |-> IF ok /\ key \in DOMAIN st THEN st[key].src ELSE NoSrc]

\* the outcomes a call may take: it returns, or (within the fault budget) raises
Outcomes == IF faults < MaxFaults THEN {TRUE, FALSE} ELSE {TRUE}

\* the fail positions within the fault budget
Within(fails) == IF faults < MaxFaults THEN fails ELSE {0}

Cost(ok) == IF ok THEN 0 ELSE 1

\* _cache_client(): the client, connecting on first use when configured
CacheClientAfter(ok) ==
    IF cache = "None" /\ redisUrl THEN (IF ok THEN "client" ELSE "None") ELSE cache

\* the live entries expire on their own
Expire(k) ==
    /\ k \in DOMAIN store
    /\ faults < MaxFaults
    /\ faults' = faults + 1
    /\ store' = [j \in DOMAIN store \ {k} |-> store[j]]
    /\ UNCHANGED <<app, lazy, keys, redisUrl, cache, req, bg>>

(***************************************************************************)
(* cached_retrieve, one action per step between two accesses of shared     *)
(* state.  A retriever run touches no shared state and is taken with the   *)
(* store that follows it.                                                  *)
(***************************************************************************)
Returned(val, via, src) == [kind |-> "ok", val |-> val, via |-> via, src |-> src]
Raised(via) == [kind |-> "raise", val |-> EmptyBundle, via |-> via, src |-> NoSrc]

\* the combined key of a call
CombinedKey(r) == _key("both", req[r].symptoms)

\* the normalized symptoms of a call
QSyms(r) == _normalize_symptoms(req[r].symptoms)

\* a test that never takes the direct path
NeverNoCache(c) == FALSE

\* `if not cache`: there is no client
NoCache(c) == c = "None"

\* lines 346-355: get the client; with no client, retrieve directly and return
Enter(r) ==
    /\ req[r].pc = "idle"
    /\ \E symptoms \in RawInputs, kw \in CallKinds, conn \in Outcomes :
         LET lim == kw.lim
             ttl == kw.ttl
             c == CacheClientAfter(conn)
             connFault == IF cache = "None" /\ redisUrl THEN Cost(conn) ELSE 0
             base == [IdleReq EXCEPT !.symptoms = symptoms, !.lim = lim, !.ttl = ttl,
                                     !.cache = c]
         IN  /\ cache' = c
             /\ IF NoCache(c)
                THEN \E fail \in (IF faults + connFault < MaxFaults
                                  THEN JointFails(symptoms, lim) ELSE {0}) :
                       LET run == retrieve_for_symptoms(symptoms, lim, fail) IN
                       /\ req' = [req EXCEPT ![r] =
                             [base EXCEPT
                                !.pc = "done",
                                !.log = run.calls,
                                !.result = IF run.raised THEN Raised("direct")
                                           ELSE Returned(run.res, "direct",
                                                  Src("exact", _normalize_symptoms(symptoms), lim))]]
                       /\ faults' = faults + connFault + (IF fail = 0 THEN 0 ELSE 1)
                ELSE /\ req' = [req EXCEPT ![r] = [base EXCEPT !.pc = "get"]]
                     /\ faults' = faults + connFault
    /\ UNCHANGED <<app, lazy, keys, redisUrl, store, bg>>

\* a call made once the call before it has returned
Start(r) ==
    /\ IF r = 1 THEN TRUE ELSE req[r - 1].pc = "done"
    /\ Enter(r)

\* where a call goes once it has missed the combined cache: the union loop
AfterMiss(r) == IF QSyms(r) = <<>> THEN "store_union" ELSE "per_get"

\* a probe that never takes the hit
NeverHit(raw) == FALSE

\* a probe that takes any bytes for a hit
AnyBytesHit(raw) == raw # NoVal

\* `if raw:` and json.loads(raw) returns: a decodable hit
DecodableHit(raw) == raw # NoVal /\ JsonDecodable(raw)

\* lines 357-373: probe the combined cache; return a decodable hit
GetCombined(r) ==
    /\ req[r].pc = "get"
    /\ \E ok \in Outcomes :
         LET key == CombinedKey(r)
             got == CacheGet(store, key, ok)
         IN  /\ faults' = faults + Cost(ok)
             /\ req' = [req EXCEPT ![r] =
                   IF got.raised
                   THEN [@ EXCEPT !.pc = "done", !.result = Raised("get"),
                                  !.log = Append(@, EvGet(key, got.raw, ok))]
                   ELSE IF DecodableHit(got.raw)
                   THEN [@ EXCEPT !.pc = "done",
                                  !.log = Append(@, EvGet(key, got.raw, ok)),
                                  !.result = Returned(JsonLoads(got.raw), "hit", got.src)]
                   ELSE [@ EXCEPT !.pc = AfterMiss(r), !.i = 1,
                                  !.log = Append(@, EvGet(key, got.raw, ok))]]
    /\ UNCHANGED <<app, lazy, keys, redisUrl, cache, store, bg>>

\* the symptom the union loop is at
CurSym(r) == QSyms(r)[req[r].i]

\* a loop that ends after its first symptom
EndsLoop(r) == "store_union"

\* the next step of the union loop after symptom i
NextInLoop(r) == IF req[r].i = Len(QSyms(r)) THEN "store_union" ELSE "per_get"

\* an error inside the union that is swallowed where it happens
UnionContinues == "store_union"

\* lines 385-388: an error inside the union is logged and the call falls through
\* to the direct full retrieval
UnionAborted == "fallback"

\* lines 172-190 within line 239: probe the per-symptom cache; take a decodable hit
PerGet(r) ==
    /\ req[r].pc = "per_get"
    /\ \E ok \in Outcomes :
         LET key == _single_key("both", CurSym(r))
             got == CacheGet(store, key, ok)
         IN  /\ faults' = faults + Cost(ok)
             /\ req' = [req EXCEPT ![r] =
                   IF got.raised
                   THEN [@ EXCEPT !.pc = UnionAborted,
                                  !.log = Append(@, EvGet(key, got.raw, ok))]
                   ELSE IF DecodableHit(got.raw)
                   THEN [@ EXCEPT !.pc = NextInLoop(r), !.i = @ + 1,
                                  !.accum = Extend(@, JsonLoads(got.raw)),
                                  !.log = Append(@, EvGet(key, got.raw, ok))]
                   ELSE [@ EXCEPT !.pc = "per_miss",
                                  !.log = Append(@, EvGet(key, got.raw, ok))]]
    /\ UNCHANGED <<app, lazy, keys, redisUrl, cache, store, bg>>

\* lines 192-199 within line 239: retrieve the symptom, store it, accumulate;
\* an oracle error leaves the union
PerMiss(r) ==
    /\ req[r].pc = "per_miss"
    /\ \E fail \in Within(SingleFails(CurSym(r), req[r].lim)) :
         LET key == _single_key("both", CurSym(r))
             run == retrieve_for_single_symptom(CurSym(r), req[r].lim, fail)
         IN  IF run.raised
             THEN /\ req' = [req EXCEPT ![r] =
                        [@ EXCEPT !.pc = UnionAborted, !.log = @ \o run.calls]]
                  /\ faults' = faults + 1
                  /\ store' = store
             ELSE \E ok \in Outcomes :
                  /\ req' = [req EXCEPT ![r] =
                        [@ EXCEPT !.pc = IF SetexSurfaces(ok) THEN UnionAborted
                                         ELSE NextInLoop(r),
                                  !.i = IF SetexSurfaces(ok) THEN @ ELSE @ + 1,
                                  !.accum = IF SetexSurfaces(ok) THEN @
                                            ELSE Extend(@, run.res),
                                  !.log = @ \o run.calls \o
                                          <<EvSetex(key, req[r].ttl, JsonDumps(run.res), ok)>>]]
                  /\ faults' = faults + Cost(ok)
                  /\ store' = AfterSetex(store, key, req[r].ttl, JsonDumps(run.res),
                                         Src("per", <<CurSym(r)>>, req[r].lim), ok)
    /\ UNCHANGED <<app, lazy, keys, redisUrl, cache, bg>>

\* a thread started for the first symptom only
SpawnedForHead(symptoms, combined_key, ttl, lim) ==
    [pc |-> "spawned", symptoms |-> (IF symptoms = <<>> THEN <<>> ELSE <<symptoms[1]>>), combined_key |-> combined_key,
     ttl |-> ttl, lim |-> lim, res |-> EmptyBundle, log |-> <<>>]

\* a thread started with the default ttl of line 345
SpawnedDefaultTtl(symptoms, combined_key, ttl, lim) ==
    [pc |-> "spawned", symptoms |-> symptoms, combined_key |-> combined_key,
     ttl |-> 3600, lim |-> lim, res |-> EmptyBundle, log |-> <<>>]

\* _spawn_background_full_refresh: the thread started, with the arguments it captured
Spawned(symptoms, combined_key, ttl, lim) ==
    [pc |-> "spawned", symptoms |-> symptoms, combined_key |-> combined_key,
     ttl |-> ttl, lim |-> lim, res |-> EmptyBundle, log |-> <<>>]

\* a store that forgets the call's ttl and takes the default of line 345
UnionStoreDefaultTtl(r, union_res, ok) ==
    EvSetex(CombinedKey(r), 3600, JsonDumps(union_res), ok)

\* line 378: the union is stored under the combined key with the call's ttl
UnionStore(r, union_res, ok) ==
    EvSetex(CombinedKey(r), req[r].ttl, JsonDumps(union_res), ok)

\* lines 244-254 and 376-383: dedupe and limit, store the union, start the refresher
StoreUnion(r) ==
    /\ req[r].pc = "store_union"
    /\ \E ok \in Outcomes :
         LET union_res == UnionFinal(req[r].accum, req[r].lim)
             set == UnionStore(r, union_res, ok)
         IN  /\ store' = AfterSetex(store, set.key, set.ttl, set.val,
                                    Src("union", QSyms(r), req[r].lim), ok)
             /\ faults' = faults + Cost(ok)
             /\ IF SetexSurfaces(ok)
                THEN /\ req' = [req EXCEPT ![r] =
                           [@ EXCEPT !.pc = UnionAborted, !.log = Append(@, set)]]
                     /\ bg' = bg
                ELSE /\ req' = [req EXCEPT ![r] =
                           [@ EXCEPT !.pc = "return_union", !.union_res = union_res,
                                     !.log = @ \o <<set, EvSpawn(CombinedKey(r), req[r].ttl)>>]]
                     /\ bg' = [bg EXCEPT ![r] =
                           Spawned(req[r].symptoms, CombinedKey(r), req[r].ttl, req[r].lim)]
    /\ UNCHANGED <<app, lazy, keys, redisUrl, cache>>

\* a return that joins the thread first
JoinsRefresher(r) == bg[r].pc \in {"done", "failed"}

\* what the return of line 384 waits for: nothing
MayReturnUnion(r) == TRUE

\* line 384: return the union
ReturnUnion(r) ==
    /\ req[r].pc = "return_union"
    /\ MayReturnUnion(r)
    /\ req' = [req EXCEPT ![r] =
          [@ EXCEPT !.pc = "done",
                    !.result = Returned(req[r].union_res, "union",
                                        Src("union", QSyms(r), req[r].lim))]]
    /\ UNCHANGED <<app, lazy, keys, redisUrl, cache, store, bg, faults>>

\* lines 388-395: retrieve the full set directly, store it, return it
Fallback(r) ==
    /\ req[r].pc = "fallback"
    /\ \E fail \in Within(JointFails(req[r].symptoms, req[r].lim)) :
         LET key == CombinedKey(r)
             run == retrieve_for_symptoms(req[r].symptoms, req[r].lim, fail)
         IN  IF run.raised
             THEN /\ req' = [req EXCEPT ![r] =
                        [@ EXCEPT !.pc = "done", !.log = @ \o run.calls,
                                  !.result = Raised("fallback")]]
                  /\ faults' = faults + 1
                  /\ store' = store
             ELSE \E ok \in Outcomes :
                  /\ req' = [req EXCEPT ![r] =
                        [@ EXCEPT !.pc = "done",
                                  !.log = @ \o run.calls \o
                                          <<EvSetex(key, req[r].ttl, JsonDumps(run.res), ok)>>,
                                  !.result = IF SetexSurfaces(ok) THEN Raised("fallback")
                                             ELSE Returned(run.res, "fallback",
                                                      Src("exact", QSyms(r), req[r].lim))]]
                  /\ faults' = faults + Cost(ok)
                  /\ store' = AfterSetex(store, key, req[r].ttl, JsonDumps(run.res),
                                         Src("exact", QSyms(r), req[r].lim), ok)
    /\ UNCHANGED <<app, lazy, keys, redisUrl, cache, bg>>

(***************************************************************************)
(* The background refresher: the daemon thread's _task.                    *)
(***************************************************************************)
\* lines 259-261: the exact joint retrieval; an error is logged and ends the task
RefreshRetrieve(r) ==
    /\ bg[r].pc = "spawned"
    /\ \E fail \in Within(JointFails(bg[r].symptoms, bg[r].lim)) :
         LET run == retrieve_for_symptoms(bg[r].symptoms, bg[r].lim, fail) IN
         /\ bg' = [bg EXCEPT ![r] =
               [@ EXCEPT !.pc = IF run.raised THEN "failed" ELSE "running",
                         !.res = run.res, !.log = run.calls]]
         /\ faults' = faults + (IF fail = 0 THEN 0 ELSE 1)
    /\ UNCHANGED <<app, lazy, keys, redisUrl, cache, store, req>>

\* a task that tries its store again when the store raised
TaskRetries(ok) == IF ok THEN "done" ELSE "running"

\* lines 264 and 268-269: the task ends after its store, returned or raised
TaskEnds(ok) == IF ok THEN "done" ELSE "failed"

\* lines 262-269: store the exact result under the key the task was started with
RefreshStore(r) ==
    /\ bg[r].pc = "running"
    /\ \E ok \in Outcomes :
         IF NoCache(cache)
         THEN /\ bg' = [bg EXCEPT ![r] = [@ EXCEPT !.pc = "done"]]
              /\ UNCHANGED <<store, faults>>
         ELSE /\ store' = AfterSetex(store, bg[r].combined_key, bg[r].ttl, JsonDumps(bg[r].res),
                                     Src("exact", _normalize_symptoms(bg[r].symptoms), bg[r].lim), ok)
              /\ faults' = faults + Cost(ok)
              /\ bg' = [bg EXCEPT ![r] =
                    [@ EXCEPT !.pc = TaskEnds(ok),
                              !.log = Append(@, EvSetex(bg[r].combined_key, bg[r].ttl,
                                                        JsonDumps(bg[r].res), ok))]]
    /\ UNCHANGED <<app, lazy, keys, redisUrl, cache, req>>

Next ==
    \/ \E r \in Requests : Start(r)
    \/ \E r \in Requests : GetCombined(r)
    \/ \E r \in Requests : PerGet(r)
    \/ \E r \in Requests : PerMiss(r)
    \/ \E r \in Requests : StoreUnion(r)
    \/ \E r \in Requests : ReturnUnion(r)
    \/ \E r \in Requests : Fallback(r)
    \/ \E r \in Requests : RefreshRetrieve(r)
    \/ \E r \in Requests : RefreshStore(r)
    \/ \E k \in DOMAIN store : Expire(k)

Spec == Init /\ [][Next]_vars

(***************************************************************************)
(* What a call has done, read from its record.                             *)
(***************************************************************************)
Done(r) == req[r].pc = "done"

\* the call found a cache client (line 346)
HadCache(r) == req[r].pc # "idle" /\ req[r].cache = "client"

\* the call's probe of the combined cache returned decodable bytes
HitSeen(r) ==
    /\ Len(req[r].log) >= 1
    /\ req[r].log[1].op = "get"
    /\ req[r].log[1].val.enc = "json"

IsOracleCall(e) == e.op \in {"embed", "query"}
IsFailedOracleCall(e) == IsOracleCall(e) /\ ~e.ok

\* the number of oracle calls of the call that raised
OracleFailures(r) == CountWhere(req[r].log, IsFailedOracleCall)

\* the stores the call attempted under its combined key
CombinedStores(r) ==
    LET T(e) == e.op = "setex" /\ e.key = CombinedKey(r) IN SelectWhere(req[r].log, T)

\* the refreshers the call started
Spawns(r) ==
    LET T(e) == e.op = "spawn" IN SelectWhere(req[r].log, T)

(***************************************************************************)
(* C1.  With a cache client and no decodable combined entry, a call whose   *)
(* union assembly succeeds (no oracle call raised) returns the union        *)
(* assembler's result, has attempted exactly one store of that result       *)
(* under the combined key with its own ttl, and has started exactly one     *)
(* refresher, for the same key, symptoms, ttl and limits.                   *)
(***************************************************************************)
C1_MissReturnsUnionStoresSpawns ==
    \A r \in Requests :
        (Done(r) /\ HadCache(r) /\ ~HitSeen(r) /\ OracleFailures(r) = 0) =>
            /\ req[r].result.kind = "ok"
            /\ req[r].result.val = UnionFinal(req[r].accum, req[r].lim)
            /\ Len(CombinedStores(r)) = 1
            /\ CombinedStores(r)[1].val = JsonDumps(req[r].result.val)
            /\ CombinedStores(r)[1].ttl = req[r].ttl
            /\ Len(Spawns(r)) = 1
            /\ Spawns(r)[1].key = CombinedKey(r)
            /\ bg[r].pc # "none"
            /\ bg[r].combined_key = CombinedKey(r)
            /\ bg[r].symptoms = req[r].symptoms
            /\ bg[r].ttl = req[r].ttl
            /\ bg[r].lim = req[r].lim

\* a call for two symptoms that missed, assembled a non-empty union and returned it
C1_Witness ==
    \E r \in Requests :
        /\ Done(r) /\ HadCache(r) /\ ~HitSeen(r) /\ OracleFailures(r) = 0
        /\ Len(QSyms(r)) = 2
        /\ req[r].result.val.ctcae # <<>>
        /\ req[r].ttl = 1800

(***************************************************************************)
(* C2.  A probe of the combined cache that reads a present, decodable       *)
(* entry ends the call at once: the call returns the entry's bundle, its    *)
(* only collaborator call is that get (no embedding, no vector search, no   *)
(* per-symptom access, no write), and nothing else changes (no store, no    *)
(* refresher).                                                              *)
(***************************************************************************)
C2_HitReturnsEntryOnly ==
    [][\A r \in Requests :
          LET key == CombinedKey(r) IN
          ( /\ req[r].pc = "get"
            /\ req'[r].pc # "get"
            /\ key \in DOMAIN store
            /\ store[key].raw.enc = "json"
            /\ req'[r].log[1].ok ) =>
               /\ req'[r].pc = "done"
               /\ req'[r].result.kind = "ok"
               /\ req'[r].result.val = store[key].raw.body
               /\ req'[r].log = <<EvGet(key, store[key].raw, TRUE)>>
               /\ store' = store
               /\ bg' = bg]_vars

\* a call served a non-empty bundle from the combined cache
C2_Witness ==
    \E r \in Requests :
        /\ Done(r) /\ HitSeen(r)
        /\ req[r].result.kind = "ok"
        /\ req[r].result.val.ctcae # <<>>

(***************************************************************************)
(* C3.  For every call and every corpus whose limit is 0, the list          *)
(* returned for that corpus is empty, whatever the cache held.              *)
(* The code breaks this: the cache keys leave the limits out, so a call     *)
(* is served what an earlier call with other limits stored.                 *)
(***************************************************************************)
C3_ZeroLimitGivesEmptyList ==
    \A r \in Requests :
        (Done(r) /\ req[r].result.kind = "ok") =>
            \A c \in SeqRange(Corpora) :
                LimitOf(req[r].lim, c) = 0 => req[r].result.val[c] = <<>>

(***************************************************************************)
(* C4.  The caller is never blocked on the refresher: until it starts its   *)
(* thread a call has none to wait for, and once it has started it, its      *)
(* one remaining step, the return of the union, can be taken whatever the   *)
(* state of the thread: not started, running, or failed.                    *)
(***************************************************************************)
C4_NeverWaitsForRefresher ==
    \A r \in Requests :
        /\ req[r].pc \in {"get", "per_get", "per_miss", "store_union", "fallback"} =>
              bg[r].pc = "none"
        /\ req[r].pc = "return_union" => ENABLED ReturnUnion(r)

\* one call has returned its union while its thread failed, and another is at its
\* return while its thread has not started
C4_Witness ==
    \E r1, r2 \in Requests :
        /\ Done(r1) /\ req[r1].result.via = "union" /\ bg[r1].pc = "failed"
        /\ req[r2].pc = "return_union" /\ bg[r2].pc = "spawned"

\* a call has returned its union while its thread is still running
C4_WitnessRunning ==
    \E r \in Requests :
        Done(r) /\ req[r].result.via = "union" /\ bg[r].pc = "running"

(***************************************************************************)
(* C5.  Two calls in immediate succession with identical input and a        *)
(* cache client, no call of a collaborator failing and no entry expiring.   *)
(***************************************************************************)
SameCall(r1, r2) ==
    /\ req[r1].symptoms = req[r2].symptoms
    /\ req[r1].lim = req[r2].lim
    /\ req[r1].ttl = req[r2].ttl

\* calls r and r + 1 are such a pair, both returned or raised
TwiceInSuccession(r) ==
    /\ Done(r) /\ Done(r + 1)
    /\ HadCache(r) /\ HadCache(r + 1)
    /\ SameCall(r, r + 1)
    /\ faults = 0

\* C5 as claimed: the two calls return identical results, the second from the
\* combined cache, under every interleaving with the refresher
C5_TwiceIdentical ==
    \A r \in 1..(MaxRequests - 1) :
        TwiceInSuccession(r) =>
            /\ req[r + 1].result.kind = "ok"
            /\ HitSeen(r + 1)
            /\ req[r + 1].result.val = req[r].result.val

\* C5 as amended: the second call is a combined-cache hit with no other call of a
\* collaborator, and returns the first call's result or, when a refresher for the
\* key has stored in between, the exact joint result for the same symptoms
C5_TwiceSameOrRefreshed ==
    \A r \in 1..(MaxRequests - 1) :
        TwiceInSuccession(r) =>
            /\ req[r + 1].result.kind = "ok"
            /\ HitSeen(r + 1)
            /\ Len(req[r + 1].log) = 1
            /\ \/ req[r + 1].result.val = req[r].result.val
               \/ \E q \in Requests :
                     /\ bg[q].pc = "done"
                     /\ bg[q].combined_key = CombinedKey(r + 1)
                     /\ req[r + 1].result.val =
                           retrieve_for_symptoms(req[r + 1].symptoms, bg[q].lim, 0).res

\* the second of two identical calls was served the refreshed exact result, which
\* differs from the union the first returned
C5_Witness ==
    \E r \in 1..(MaxRequests - 1) :
        /\ TwiceInSuccession(r)
        /\ req[r].result.via = "union"
        /\ req[r + 1].result.via = "hit"
        /\ req[r + 1].result.val # req[r].result.val

(***************************************************************************)
(* C6.  After a first call for a symptom set S, a second call for S whose   *)
(* oracle calls all return, under every interleaving with the first call's  *)
(* refresher (and whatever the cache does), does not raise and returns a    *)
(* bundle computed for S: the union of per-symptom results of S, or the     *)
(* exact joint result of S.                                                 *)
(***************************************************************************)
\* the bundle is the exact joint result of the symptoms under some call's limits
IsExactFor(val, symptoms) ==
    \E kw \in CallKinds : val = retrieve_for_symptoms(symptoms, kw.lim, 0).res

\* every record of the bundle is a per-symptom result of a symptom of the set
IsUnionFor(val, syms) ==
    \A c \in SeqRange(Corpora) : \A i \in 1..Len(val[c]) :
        \E j \in 1..Len(syms), kw \in CallKinds :
            val[c][i] \in SeqRange(retrieve_for_single_symptom(syms[j], kw.lim, 0).res[c])

C6_SecondCallSameSet ==
    ( /\ Done(1) /\ Done(2)
      /\ QSyms(1) = QSyms(2)
      /\ OracleFailures(2) = 0 ) =>
         /\ req[2].result.kind = "ok"
         /\ req[2].result.src.syms = QSyms(2)
         /\ \/ /\ req[2].result.src.kind = "union"
               /\ IsUnionFor(req[2].result.val, QSyms(2))
            \/ /\ req[2].result.src.kind = "exact"
               /\ IsExactFor(req[2].result.val, req[2].symptoms)

\* from a cold cache the first call returned the union of two symptoms and the
\* second was served the refreshed exact result
C6_Witness ==
    /\ Done(1) /\ Done(2)
    /\ Len(QSyms(1)) = 2 /\ QSyms(1) = QSyms(2)
    /\ req[1].log[1].val = NoVal
    /\ req[1].result.via = "union"
    /\ req[2].result.via = "hit"
    /\ req[2].result.src.kind = "exact"
    /\ req[2].result.val # req[1].result.val

(***************************************************************************)
(* C7.  A call whose input normalizes to the empty set returns empty lists  *)
(* and touches neither the cache nor the oracles nor starts a refresher.    *)
(* The code has no such short-circuit in cached_retrieve.                   *)
(***************************************************************************)
C7_EmptyInputTouchesNothing ==
    \A r \in Requests :
        (Done(r) /\ QSyms(r) = <<>>) =>
            /\ req[r].result.kind = "ok"
            /\ req[r].result.val = EmptyBundle
            /\ req[r].log = <<>>
            /\ bg[r].pc = "none"

(***************************************************************************)
(* C8.  A call that finds no cache client returns in one step what          *)
(* retrieve_for_symptoms returns for its input and limits (or raises what   *)
(* it raises), having made that retriever's oracle calls and no other       *)
(* call; the store and the threads are unchanged.                           *)
(***************************************************************************)
C8_NoCacheIsDirectRetrieval ==
    [][\A r \in Requests :
          (req[r].pc = "idle" /\ req'[r].pc # "idle" /\ req'[r].cache = "None") =>
              /\ req'[r].pc = "done"
              /\ store' = store
              /\ bg' = bg
              /\ \E fail \in JointFails(req'[r].symptoms, req'[r].lim) :
                    LET run == retrieve_for_symptoms(req'[r].symptoms, req'[r].lim, fail) IN
                    /\ req'[r].log = run.calls
                    /\ req'[r].result.kind = (IF run.raised THEN "raise" ELSE "ok")
                    /\ req'[r].result.val = run.res]_vars

\* a call without a client returned a non-empty exact result
C8_Witness ==
    \E r \in Requests :
        /\ Done(r) /\ req[r].cache = "None"
        /\ req[r].result.kind = "ok"
        /\ req[r].result.val.ctcae # <<>>

(***************************************************************************)
(* C9.  On a combined miss, when the union assembly raises, the call makes  *)
(* the exact joint retrieval itself; if that returns, the call attempts     *)
(* one store of the exact result under the combined key with its ttl and    *)
(* returns the exact result.  It starts no refresher, and the union's       *)
(* error is not what the caller gets.                                       *)
(***************************************************************************)
\* the first oracle call of the call that raised
FirstFailure(r) ==
    CHOOSE i \in 1..Len(req[r].log) :
        /\ IsFailedOracleCall(req[r].log[i])
        /\ \A j \in 1..(i - 1) : ~IsFailedOracleCall(req[r].log[j])

\* what the call did after that
AfterFirstFailure(r) == SubSeq(req[r].log, FirstFailure(r) + 1, Len(req[r].log))

C9_UnionFailureFallsBackToExact ==
    \A r \in Requests :
        (Done(r) /\ HadCache(r) /\ ~HitSeen(r) /\ OracleFailures(r) >= 1) =>
            LET exact == retrieve_for_symptoms(req[r].symptoms, req[r].lim, 0)
                tail == AfterFirstFailure(r)
                n == Len(exact.calls)
            IN  /\ Spawns(r) = <<>>
                /\ bg[r].pc = "none"
                /\ OracleFailures(r) = 1 =>
                      /\ req[r].result.kind = "ok"
                      /\ req[r].result.val = exact.res
                      /\ Len(tail) = n + 1
                      /\ SubSeq(tail, 1, n) = exact.calls
                      /\ tail[n + 1].op = "setex"
                      /\ tail[n + 1].key = CombinedKey(r)
                      /\ tail[n + 1].ttl = req[r].ttl
                      /\ tail[n + 1].val = JsonDumps(exact.res)
                      /\ Len(CombinedStores(r)) = 1
                /\ OracleFailures(r) > 1 => req[r].result.kind = "raise"

\* a call whose union raised returned a non-empty exact result
C9_Witness ==
    \E r \in Requests :
        /\ Done(r) /\ HadCache(r) /\ ~HitSeen(r) /\ OracleFailures(r) = 1
        /\ req[r].result.kind = "ok"
        /\ req[r].result.val.ctcae # <<>>

(***************************************************************************)
(* C10.  A call raises only when the exact joint retrieval, its last        *)
(* resort, raises: the last thing it did is a failed oracle call of that    *)
(* retrieval, and with a cache client it had no decodable hit and its       *)
(* union had raised before.  A call none of whose oracle calls raised       *)
(* returns, whatever the cache calls and the threads did.                   *)
(***************************************************************************)
C10_RaisesOnlyWhenLastResortFails ==
    \A r \in Requests :
        Done(r) =>
            /\ req[r].result.kind = "raise" =>
                  /\ \E fail \in JointFails(req[r].symptoms, req[r].lim) \ {0} :
                        /\ fail <= Len(req[r].log)
                        /\ SubSeq(req[r].log, Len(req[r].log) - fail + 1, Len(req[r].log)) =
                              retrieve_for_symptoms(req[r].symptoms, req[r].lim, fail).calls
                  /\ HadCache(r) => (~HitSeen(r) /\ OracleFailures(r) = 2)
                  /\ ~HadCache(r) => OracleFailures(r) = 1
            /\ OracleFailures(r) = 0 => req[r].result.kind = "ok"
            /\ (HadCache(r) /\ OracleFailures(r) < 2) => req[r].result.kind = "ok"

\* a call with a cache client raised
C10_Witness ==
    \E r \in Requests :
        Done(r) /\ HadCache(r) /\ req[r].result.kind = "raise"

(***************************************************************************)
(* Steps of a call, read from two successive states.                        *)
(***************************************************************************)
\* call r takes a step
Steps(r) == req'[r] # req[r]

\* the last thing the call has done after the step
LastEvent(r) == req'[r].log[Len(req'[r].log)]

\* the things the call did in the step
NewEvents(r) == SubSeq(req'[r].log, Len(req[r].log) + 1, Len(req'[r].log))

\* the step attempted a store that raised
StoreFailed(r) ==
    \E i \in 1..Len(NewEvents(r)) : NewEvents(r)[i].op = "setex" /\ ~NewEvents(r)[i].ok

\* the step made a store under the key that returned
StoreSucceeded(r, key) ==
    \E i \in 1..Len(NewEvents(r)) :
        NewEvents(r)[i].op = "setex" /\ NewEvents(r)[i].ok /\ NewEvents(r)[i].key = key

\* the per-symptom key the union loop is at
CurKey(r) == _single_key("both", CurSym(r))

\* the key holds bytes that do not decode
HoldsGarbage(key) == key \in DOMAIN store /\ store[key].raw = Garbage

(***************************************************************************)
(* C11.  A cache read that raises is handled exactly like a miss, at both   *)
(* tiers: the combined probe goes on to the union assembly, the per-symptom *)
(* probe to the per-symptom oracle retrieval, the call's record being what  *)
(* an absent key leaves but for the logged failure; nothing is raised and   *)
(* nothing is stored.                                                       *)
(***************************************************************************)
C11_FailedGetIsAMiss ==
    [][\A r \in Requests :
          (req[r].pc \in {"get", "per_get"} /\ Steps(r) /\ ~LastEvent(r).ok) =>
              /\ store' = store
              /\ bg' = bg
              /\ req[r].pc = "get" =>
                    req'[r] = [req[r] EXCEPT
                                  !.pc = AfterMiss(r), !.i = 1,
                                  !.log = Append(@, EvGet(CombinedKey(r), NoVal, FALSE))]
              /\ req[r].pc = "per_get" =>
                    req'[r] = [req[r] EXCEPT
                                  !.pc = "per_miss",
                                  !.log = Append(@, EvGet(CurKey(r), NoVal, FALSE))]]_vars

\* a call whose combined read and per-symptom read both raised returned a
\* non-empty union
C11_Witness ==
    \E r \in Requests :
        /\ Done(r)
        /\ req[r].result.kind = "ok" /\ req[r].result.via = "union"
        /\ req[r].result.val.ctcae # <<>>
        /\ req[r].log[1].op = "get" /\ ~req[r].log[1].ok
        /\ \E i \in 2..Len(req[r].log) : req[r].log[i].op = "get" /\ ~req[r].log[i].ok

(***************************************************************************)
(* C12.  A store that raises loses no computed result: after the            *)
(* per-symptom retrieval the result is accumulated and the loop goes on;    *)
(* after the union assembly the refresher is started and the union is       *)
(* what the call returns; after the exact fallback the call returns the     *)
(* exact result.  The store is left as it was.                              *)
(***************************************************************************)
C12_FailedStoreKeepsResult ==
    [][\A r \in Requests :
          /\ StoreFailed(r) =>
                /\ store' = store
                /\ req[r].pc = "per_miss" =>
                      /\ req'[r].pc = NextInLoop(r)
                      /\ req'[r].accum =
                            Extend(req[r].accum,
                                   retrieve_for_single_symptom(CurSym(r), req[r].lim, 0).res)
                /\ req[r].pc = "store_union" =>
                      /\ req'[r].pc = "return_union"
                      /\ req'[r].union_res = UnionFinal(req[r].accum, req[r].lim)
                      /\ LastEvent(r) = EvSpawn(CombinedKey(r), req[r].ttl)
                      /\ bg'[r].pc = "spawned"
                /\ req[r].pc = "fallback" =>
                      /\ req'[r].pc = "done"
                      /\ req'[r].result.kind = "ok"
                      /\ req'[r].result.val =
                            retrieve_for_symptoms(req[r].symptoms, req[r].lim, 0).res
          /\ (req[r].pc = "return_union" /\ Steps(r)) =>
                /\ req'[r].pc = "done"
                /\ req'[r].result.kind = "ok"
                /\ req'[r].result.val = req[r].union_res]_vars

\* a call whose per-symptom store and union store both raised returned a
\* non-empty union and started its refresher
C12_Witness ==
    \E r \in Requests :
        /\ Done(r)
        /\ req[r].result.kind = "ok" /\ req[r].result.via = "union"
        /\ req[r].result.val.ctcae # <<>>
        /\ bg[r].pc # "none"
        /\ \E i, j \in 1..Len(req[r].log) :
              /\ i < j
              /\ req[r].log[i].op = "setex" /\ ~req[r].log[i].ok
              /\ req[r].log[j].op = "setex" /\ ~req[r].log[j].ok
              /\ req[r].log[j].key = CombinedKey(r)

(***************************************************************************)
(* C13.  Present bytes that do not decode are handled exactly like a miss,  *)
(* at both tiers: the call's record after the probe is what an absent key   *)
(* leaves but for the logged bytes, nothing is raised, and the store that   *)
(* follows, when it returns, replaces the bytes by the fresh result.        *)
(***************************************************************************)
C13_UndecodableIsAMiss ==
    [][\A r \in Requests :
          /\ (req[r].pc = "get" /\ Steps(r) /\ LastEvent(r) = EvGet(CombinedKey(r), Garbage, TRUE)) =>
                /\ store' = store
                /\ req'[r] = [req[r] EXCEPT
                                 !.pc = AfterMiss(r), !.i = 1,
                                 !.log = Append(@, EvGet(CombinedKey(r), Garbage, TRUE))]
          /\ (req[r].pc = "per_get" /\ Steps(r) /\ LastEvent(r) = EvGet(CurKey(r), Garbage, TRUE)) =>
                /\ store' = store
                /\ req'[r] = [req[r] EXCEPT
                                 !.pc = "per_miss",
                                 !.log = Append(@, EvGet(CurKey(r), Garbage, TRUE))]
          /\ (req[r].pc = "store_union" /\ HoldsGarbage(CombinedKey(r))
                 /\ StoreSucceeded(r, CombinedKey(r))) =>
                /\ store'[CombinedKey(r)].raw = JsonDumps(UnionFinal(req[r].accum, req[r].lim))
                /\ store'[CombinedKey(r)].ttl = req[r].ttl
          /\ (req[r].pc = "per_miss" /\ HoldsGarbage(CurKey(r))
                 /\ StoreSucceeded(r, CurKey(r))) =>
                /\ store'[CurKey(r)].raw =
                      JsonDumps(retrieve_for_single_symptom(CurSym(r), req[r].lim, 0).res)
                /\ store'[CurKey(r)].ttl = req[r].ttl]_vars

\* a call read undecodable bytes at both tiers, returned its union, and both keys
\* now hold decodable entries
C13_Witness ==
    \E r \in Requests :
        /\ Done(r)
        /\ req[r].result.kind = "ok" /\ req[r].result.via = "union"
        /\ req[r].log[1] = EvGet(CombinedKey(r), Garbage, TRUE)
        /\ \E i \in 2..Len(req[r].log) :
              /\ req[r].log[i].op = "get" /\ req[r].log[i].val = Garbage
              /\ req[r].log[i].key \in DOMAIN store
              /\ store[req[r].log[i].key].raw.enc = "json"
        /\ CombinedKey(r) \in DOMAIN store
        /\ store[CombinedKey(r)].raw.enc = "json"

(***************************************************************************)
(* Steps of a refresher, read from two successive states.                   *)
(***************************************************************************)
\* the thread of call r takes a step
BgSteps(r) == bg[r].pc # "none" /\ bg'[r] # bg[r]

\* the thread's store returned
BgStored(r) ==
    /\ bg[r].pc = "running" /\ bg'[r].pc = "done"
    /\ bg'[r].log # bg[r].log

(***************************************************************************)
(* C14.  The store of a refresher that succeeds replaces the entry at the   *)
(* combined key of the call that started it by the exact joint result for   *)
(* that call's symptoms and limits, under that call's ttl, leaving every    *)
(* other entry alone; the call made its union store before it.              *)
(***************************************************************************)
C14_RefresherOverwritesWithExact ==
    [][\A r \in Requests :
          BgStored(r) =>
              /\ bg[r].combined_key = CombinedKey(r)
              /\ store' = Setex(store, CombinedKey(r), req[r].ttl,
                                JsonDumps(retrieve_for_symptoms(req[r].symptoms, req[r].lim, 0).res),
                                Src("exact", QSyms(r), req[r].lim))
              /\ req[r].pc \in {"return_union", "done"}
              /\ Len(CombinedStores(r)) = 1
              /\ CombinedStores(r)[1].val = JsonDumps(req[r].union_res)]_vars

\* a refresher has replaced the union its call stored by an exact result that
\* differs from it
C14_Witness ==
    \E r \in Requests :
        /\ bg[r].pc = "done"
        /\ CombinedStores(r)[1].ok
        /\ CombinedKey(r) \in DOMAIN store
        /\ store[CombinedKey(r)].raw = JsonDumps(bg[r].res)
        /\ store[CombinedKey(r)].ttl = 1800
        /\ bg[r].res # req[r].union_res

(***************************************************************************)
(* C15.  A refresher changes nothing but its own record until its store     *)
(* returns: a step in which its retrieval or its store raises, like every   *)
(* step before it, leaves the store, the client and every call as they      *)
(* were, so that nothing is raised to a call and the combined entry is      *)
(* what it was before the refresher ran.                                    *)
(***************************************************************************)
C15_RefresherFailureChangesNothing ==
    [][\A r \in Requests :
          (BgSteps(r) /\ ~BgStored(r)) =>
              /\ store' = store
              /\ req' = req
              /\ cache' = cache
              /\ \A q \in Requests \ {r} : bg'[q] = bg[q]]_vars

\* a refresher's store raised and the key still holds the union its call stored
C15_Witness ==
    \E r \in Requests :
        /\ bg[r].pc = "failed"
        /\ bg[r].log # <<>>
        /\ bg[r].log[Len(bg[r].log)].op = "setex"
        /\ Done(r)
        /\ CombinedKey(r) \in DOMAIN store
        /\ store[CombinedKey(r)].raw = JsonDumps(req[r].union_res)
        /\ store[CombinedKey(r)].src.kind = "union"

\* a refresher's retrieval raised
C15_WitnessRetrieval ==
    \E r \in Requests :
        /\ bg[r].pc = "failed"
        /\ bg[r].log # <<>>
        /\ IsFailedOracleCall(bg[r].log[Len(bg[r].log)])

(***************************************************************************)
(* C16.  Two refreshers for the same combined key that both hold their      *)
(* result, neither having stored yet, hold the same result, so that the     *)
(* entry is the same whichever stores last.  The key does not hold the      *)
(* limits, and refreshers started by calls with other limits write other    *)
(* bundles.                                                                 *)
(***************************************************************************)
C16_SameEntryWhicheverStoresLast ==
    \A r1, r2 \in Requests :
        ( /\ bg[r1].pc = "running" /\ bg[r2].pc = "running"
          /\ bg[r1].combined_key = bg[r2].combined_key ) =>
            JsonDumps(bg[r1].res) = JsonDumps(bg[r2].res)

(***************************************************************************)
(* The cache key as a function: _key applied to two raw symptom lists.      *)
(***************************************************************************)
\* raw labels: empty, blank, in either case, with surrounding whitespace, and one
\* that holds a comma
KeyLabels ==
    { <<>>, <<" ">>, <<"a">>, <<" ", "A", " ">>, <<"b">>, <<"B">>, <<"a", ",", "b">> }

\* the raw symptom lists of up to MaxSymptoms labels
KeyInputs == UNION { [1..n -> KeyLabels] : n \in 0..MaxSymptoms }

KeyInit ==
    /\ keys \in { [NoKeys EXCEPT !.x = x, !.y = y] : x \in KeyInputs, y \in KeyInputs }
    /\ redisUrl = FALSE
    /\ cache = "None"
    /\ store = EmptyStore
    /\ req = [r \in Requests |-> IdleReq]
    /\ bg = [r \in Requests |-> NoBg]
    /\ faults = 0
    /\ app = NoApp
    /\ lazy = NoLazy

\* combined_key = _key("both", symptoms), for each of the two lists
ComputeKeys ==
    /\ ~keys.computed
    /\ keys' = [keys EXCEPT !.kx = _key("both", keys.x), !.ky = _key("both", keys.y),
                            !.computed = TRUE]
    /\ UNCHANGED <<redisUrl, cache, store, req, bg, faults, app, lazy>>

KeyNext == ComputeKeys

KeySpec == KeyInit /\ [][KeyNext]_vars

\* the SymptomSet a raw list stands for: its labels without surrounding whitespace
\* (the labels here have none inside), in lower case, blanks left out
Fold(c) == IF c = "A" THEN "a" ELSE IF c = "B" THEN "b" ELSE c

FoldedLabel(s) ==
    LET NotSpace(c) == c # " "
        t == SelectSeq(s, NotSpace)
    IN  [i \in 1..Len(t) |-> Fold(t[i])]

SymptomSetOf(l) == {FoldedLabel(l[i]) : i \in 1..Len(l)} \ {<<>>}

(***************************************************************************)
(* C17.  Two raw lists that stand for the same SymptomSet, differing only   *)
(* in order, case, surrounding whitespace, blanks or duplicates, get the    *)
(* same combined key.                                                       *)
(***************************************************************************)
C17_SameSetSameKey ==
    (keys.computed /\ SymptomSetOf(keys.x) = SymptomSetOf(keys.y)) => keys.kx = keys.ky

\* two lists that differ in order, case and whitespace got the same key
C17_Witness ==
    /\ keys.computed
    /\ keys.x = << <<"b">>, <<" ", "A", " ">> >>
    /\ keys.y = << <<"a">>, <<"B">> >>
    /\ keys.kx = keys.ky
    /\ keys.kx # NoKey

\* a list with a blank and a duplicate got the key of the single label
C17_WitnessBlankDuplicate ==
    /\ keys.computed
    /\ keys.x \in { << <<" ">>, <<"a">> >>, << <<"a">>, <<"a">> >> }
    /\ keys.y = << <<"a">> >>
    /\ keys.kx = keys.ky

(***************************************************************************)
(* C18.  Two raw lists get the same combined key only if their normalized   *)
(* sorted sequences are the same.  The comma-joined string is not           *)
(* injective on labels that hold a comma.                                   *)
(***************************************************************************)
C18_SameKeySameSet ==
    (keys.computed /\ keys.kx = keys.ky) =>
        _normalize_symptoms(keys.x) = _normalize_symptoms(keys.y)

(***************************************************************************)
(* cached_retrieve_single_symptom called on its own: the calls of req are   *)
(* calls of it, each for one raw symptom.                                   *)
(***************************************************************************)
\* the raw symptoms passed to cached_retrieve_single_symptom
SingleInputs == { <<"a">>, <<" ", "A">>, <<"b">>, <<" ">> }

\* the symptom of a call and its per-symptom key (lines 173, 178)
SingleSym(r) == req[r].symptoms[1]
SingleKey(r) == _single_key("both", NormSym(SingleSym(r)))

\* lines 172-176: get the client; with no client, retrieve directly and return
SingleStart(r) ==
    /\ req[r].pc = "idle"
    /\ \E symptom \in SingleInputs, kw \in CallKinds, conn \in Outcomes :
         LET c == CacheClientAfter(conn)
             connFault == IF cache = "None" /\ redisUrl THEN Cost(conn) ELSE 0
             base == [IdleReq EXCEPT !.symptoms = <<symptom>>, !.lim = kw.lim,
                                     !.ttl = kw.ttl, !.cache = c]
         IN  /\ cache' = c
             /\ IF NoCache(c)
                THEN \E fail \in (IF faults + connFault < MaxFaults
                                  THEN SingleFails(symptom, kw.lim) ELSE {0}) :
                       LET run == retrieve_for_single_symptom(NormSym(symptom), kw.lim, fail) IN
                       /\ req' = [req EXCEPT ![r] =
                             [base EXCEPT
                                !.pc = "done",
                                !.log = run.calls,
                                !.result = IF run.raised THEN Raised("direct")
                                           ELSE Returned(run.res, "direct",
                                                  Src("per", <<NormSym(symptom)>>, kw.lim))]]
                       /\ faults' = faults + connFault + (IF fail = 0 THEN 0 ELSE 1)
                ELSE /\ req' = [req EXCEPT ![r] = [base EXCEPT !.pc = "single_get"]]
                     /\ faults' = faults + connFault
    /\ UNCHANGED <<app, lazy, keys, redisUrl, store, bg>>

\* lines 178-190: probe the per-symptom cache; return a decodable hit
SingleGet(r) ==
    /\ req[r].pc = "single_get"
    /\ \E ok \in Outcomes :
         LET key == SingleKey(r)
             got == CacheGet(store, key, ok)
         IN  /\ faults' = faults + Cost(ok)
             /\ req' = [req EXCEPT ![r] =
                   IF got.raised
                   THEN [@ EXCEPT !.pc = "done", !.result = Raised("get"),
                                  !.log = Append(@, EvGet(key, got.raw, ok))]
                   ELSE IF DecodableHit(got.raw)
                   THEN [@ EXCEPT !.pc = "done",
                                  !.log = Append(@, EvGet(key, got.raw, ok)),
                                  !.result = Returned(JsonLoads(got.raw), "hit", got.src)]
                   ELSE [@ EXCEPT !.pc = "single_miss",
                                  !.log = Append(@, EvGet(key, got.raw, ok))]]
    /\ UNCHANGED <<app, lazy, keys, redisUrl, cache, store, bg>>

\* lines 192-199: retrieve the symptom, store the result, return it
SingleMiss(r) ==
    /\ req[r].pc = "single_miss"
    /\ \E fail \in Within(SingleFails(SingleSym(r), req[r].lim)) :
         LET key == SingleKey(r)
             sym == NormSym(SingleSym(r))
             run == retrieve_for_single_symptom(sym, req[r].lim, fail)
         IN  IF run.raised
             THEN /\ req' = [req EXCEPT ![r] =
                        [@ EXCEPT !.pc = "done", !.log = @ \o run.calls,
                                  !.result = Raised("miss")]]
                  /\ faults' = faults + 1
                  /\ store' = store
             ELSE \E ok \in Outcomes :
                  /\ req' = [req EXCEPT ![r] =
                        [@ EXCEPT !.pc = "done",
                                  !.log = @ \o run.calls \o
                                          <<EvSetex(key, req[r].ttl, JsonDumps(run.res), ok)>>,
                                  !.result = IF SetexSurfaces(ok) THEN Raised("miss")
                                             ELSE Returned(run.res, "miss",
                                                           Src("per", <<sym>>, req[r].lim))]]
                  /\ faults' = faults + Cost(ok)
                  /\ store' = AfterSetex(store, key, req[r].ttl, JsonDumps(run.res),
                                         Src("per", <<sym>>, req[r].lim), ok)
    /\ UNCHANGED <<app, lazy, keys, redisUrl, cache, bg>>

SingleNext ==
    \/ \E r \in Requests : SingleStart(r)
    \/ \E r \in Requests : SingleGet(r)
    \/ \E r \in Requests : SingleMiss(r)
    \/ \E k \in DOMAIN store : Expire(k)

SingleSpec == Init /\ [][SingleNext]_vars

(***************************************************************************)
(* C19.  cached_retrieve_single_symptom.  With a client: a present          *)
(* decodable entry is returned with no oracle call; on absence the          *)
(* per-symptom retriever is run exactly once, its result stored under the   *)
(* per-symptom key with the call's ttl, and returned.  Without a client:    *)
(* every call runs the retriever and nothing is stored.                     *)
(***************************************************************************)
C19_SingleSymptomCache ==
    [][\A r \in Requests :
          /\ ( /\ req[r].pc = "single_get" /\ Steps(r) /\ LastEvent(r).ok
               /\ SingleKey(r) \in DOMAIN store
               /\ JsonDecodable(store[SingleKey(r)].raw) ) =>
                  /\ req'[r].pc = "done"
                  /\ req'[r].result.kind = "ok"
                  /\ req'[r].result.val = JsonLoads(store[SingleKey(r)].raw)
                  /\ req'[r].log = <<EvGet(SingleKey(r), store[SingleKey(r)].raw, TRUE)>>
                  /\ store' = store
          /\ ( /\ req[r].pc = "single_get" /\ Steps(r) /\ LastEvent(r).ok
               /\ SingleKey(r) \notin DOMAIN store ) =>
                  /\ req'[r].pc = "single_miss"
                  /\ req'[r].result = NoResult
                  /\ store' = store
          /\ ( /\ req[r].pc = "single_miss" /\ Steps(r)
               /\ \A i \in 1..Len(NewEvents(r)) : ~IsFailedOracleCall(NewEvents(r)[i]) ) =>
                  LET run == retrieve_for_single_symptom(SingleSym(r), req[r].lim, 0) IN
                  \E ok \in BOOLEAN :
                     /\ NewEvents(r) = run.calls \o
                           <<EvSetex(SingleKey(r), req[r].ttl, JsonDumps(run.res), ok)>>
                     /\ store' = IF ok
                                 THEN Setex(store, SingleKey(r), req[r].ttl, JsonDumps(run.res),
                                            Src("per", <<NormSym(SingleSym(r))>>, req[r].lim))
                                 ELSE store
                     /\ req'[r].pc = "done"
                     /\ req'[r].result.kind = "ok"
                     /\ req'[r].result.val = run.res
          /\ (req[r].pc = "idle" /\ Steps(r) /\ req'[r].cache = "None") =>
                  /\ req'[r].pc = "done"
                  /\ store' = store
                  /\ \E fail \in SingleFails(SingleSym(r)', req'[r].lim) :
                        LET run == retrieve_for_single_symptom(SingleSym(r)', req'[r].lim, fail) IN
                        /\ req'[r].log = run.calls
                        /\ req'[r].result.kind = (IF run.raised THEN "raise" ELSE "ok")
                        /\ req'[r].result.val = run.res]_vars

\* one call missed, retrieved and stored; the next call for the same symptom,
\* written otherwise, was served the entry with no oracle call
C19_Witness ==
    \E r1, r2 \in Requests :
        /\ Done(r1) /\ Done(r2)
        /\ req[r1].result.via = "miss" /\ req[r2].result.via = "hit"
        /\ req[r1].symptoms # req[r2].symptoms
        /\ SingleKey(r1) = SingleKey(r2)
        /\ req[r2].result.val = req[r1].result.val
        /\ req[r2].result.val # EmptyBundle
        /\ Len(req[r2].log) = 1

\* without a client two calls for the same symptom each ran the retriever, and
\* nothing was stored
C19_WitnessNoCache ==
    \E r1, r2 \in Requests :
        /\ r1 # r2
        /\ Done(r1) /\ Done(r2)
        /\ req[r1].cache = "None" /\ req[r2].cache = "None"
        /\ req[r1].symptoms = req[r2].symptoms
        /\ req[r1].result.kind = "ok" /\ req[r1].result.val # EmptyBundle
        /\ req[r2].result.kind = "ok"
        /\ req[r1].log # <<>> /\ req[r2].log # <<>>
        /\ store = EmptyStore

(***************************************************************************)
(* C20.  What _dedupe_and_limit returns for a corpus, as the union          *)
(* assembler calls it, holds at most `limit` records, for every limit       *)
(* >= 0, and no two records with the same dedup key.  With limit 0 and a    *)
(* non-empty accumulator the loop appends one record before it tests the    *)
(* length.                                                                  *)
(***************************************************************************)
\* no two records of the list have the same dedup key
NoDuplicateKeys(out, kind) ==
    \A i, j \in 1..Len(out) : i # j => DedupKey(out[i], kind) # DedupKey(out[j], kind)

C20_AtMostLimitNoDuplicates ==
    \A r \in Requests :
        req[r].pc = "return_union" =>
            \A c \in SeqRange(Corpora) :
                /\ req[r].union_res[c] = _dedupe_and_limit(req[r].accum[c], LimitOf(req[r].lim, c), c)
                /\ Len(req[r].union_res[c]) <= LimitOf(req[r].lim, c)
                /\ NoDuplicateKeys(req[r].union_res[c], c)

\* the half of C20 that holds: no two records returned share a dedup key
C20_NoDuplicatesOnly ==
    \A r \in Requests :
        req[r].pc = "return_union" =>
            \A c \in SeqRange(Corpora) : NoDuplicateKeys(req[r].union_res[c], c)

(***************************************************************************)
(* _dedupe_and_limit as a function: applied to lists of records with equal  *)
(* scores, missing scores, a zero score and repeated dedup keys.            *)
(***************************************************************************)
Rec(text, version, qid, score) ==
    [text |-> text, symptoms |-> {Sa}, version |-> version, qid |-> qid, score |-> score]

\* the records accumulated: "c1" twice under two scores, two records of score 9,
\* one without score and one of score 0, two questions of one qid
DedupeRecords ==
    { Rec("c1", "v5", "", 9), Rec("c2", "v5", "", 9), Rec("c1", "v5", "", 5),
      Rec("c3", "v5", "", ScoreNone), Rec("c4", "v5", "", 0),
      Rec("q1", "", "Q1", 8), Rec("q2", "", "Q1", 7) }

DedupeInputs == UNION { [1..n -> DedupeRecords] : n \in 0..MaxItems }

\* the state of the calls of cached_retrieve when no call is made
CallsIdle ==
    /\ redisUrl = FALSE
    /\ cache = "None"
    /\ store = EmptyStore
    /\ req = [r \in Requests |-> IdleReq]
    /\ bg = [r \in Requests |-> NoBg]
    /\ faults = 0

DedupeInit ==
    /\ app \in { [fn |-> "_dedupe_and_limit", items |-> items, top_k |-> top_k, kind |-> kind,
                  out |-> <<>>, computed |-> FALSE] :
                    items \in DedupeInputs, top_k \in 0..MaxItems,
                    kind \in {"ctcae", "questions"} }
    /\ CallsIdle
    /\ keys = NoKeys
    /\ lazy = NoLazy

\* ctcae_final = _dedupe_and_limit(ctcae_accum, top_k=k_ctcae, kind="ctcae")
ApplyDedupe ==
    /\ app.fn = "_dedupe_and_limit"
    /\ ~app.computed
    /\ app' = [app EXCEPT !.out = _dedupe_and_limit(app.items, app.top_k, app.kind),
                          !.computed = TRUE]
    /\ UNCHANGED <<callVars, keys, lazy>>

DedupeNext == ApplyDedupe

DedupeSpec == DedupeInit /\ [][DedupeNext]_vars

\* the score a record counts for: its score, 0 when it has none
CountedScore(x) == IF x.score = ScoreNone THEN 0 ELSE x.score

\* the first place of a record in the accumulated list
FirstPlace(items, x) == CHOOSE i \in 1..Len(items) : items[i] = x /\ \A j \in 1..(i - 1) : items[j] # x

(***************************************************************************)
(* C21.  The records returned for a corpus are in non-increasing order of   *)
(* score, a missing score counting as 0, and records of equal score are     *)
(* in the order in which they were accumulated.                             *)
(***************************************************************************)
C21_DescendingScoreStable ==
    app.computed =>
        \A i, j \in 1..Len(app.out) :
            i < j =>
                /\ CountedScore(app.out[i]) >= CountedScore(app.out[j])
                /\ CountedScore(app.out[i]) = CountedScore(app.out[j]) =>
                      FirstPlace(app.items, app.out[i]) < FirstPlace(app.items, app.out[j])

\* the record without score, accumulated first, was returned before the record of
\* score 0 and after a record of score 9
C21_Witness ==
    /\ app.computed
    /\ app.items = << Rec("c3", "v5", "", ScoreNone), Rec("c4", "v5", "", 0), Rec("c2", "v5", "", 9) >>
    /\ app.top_k = 3
    /\ app.out = << Rec("c2", "v5", "", 9), Rec("c3", "v5", "", ScoreNone), Rec("c4", "v5", "", 0) >>

(***************************************************************************)
(* C22.  _dedupe_and_limit returns exactly the first `limit` entries of     *)
(* the accumulated list sorted by descending score with only the first      *)
(* occurrence of each dedup key kept.  With limit 0 it returns one entry.   *)
(***************************************************************************)
\* the list sorted by descending counted score, equal scores in accumulation order
ByScore(items) == SortedDesc(items, CountedScore)

\* its entries whose dedup key no earlier entry has
FirstPerKey(sorted, kind) ==
    LET idx == {i \in 1..Len(sorted) :
                   \A j \in 1..(i - 1) : DedupKey(sorted[j], kind) # DedupKey(sorted[i], kind)}
        Pos(i) == Cardinality({j \in idx : j <= i})
    IN  [p \in 1..Cardinality(idx) |-> sorted[CHOOSE i \in idx : Pos(i) = p]]

C22_FirstLimitOfSortedDeduped ==
    app.computed =>
        app.out = Take(FirstPerKey(ByScore(app.items), app.kind), app.top_k)

\* C22 for the limits above 0, where it holds
C22_HoldsAboveZero ==
    (app.computed /\ app.top_k > 0) =>
        app.out = Take(FirstPerKey(ByScore(app.items), app.kind), app.top_k)

(***************************************************************************)
(* C23.  The union assembly, read from the call's log: one probe of the     *)
(* per-symptom cache for each symptom of the normalized set, in order;      *)
(* one run of the per-symptom retriever for each probe that gave no         *)
(* decodable entry and none for the others; the accumulators hold the       *)
(* per-symptom results of all symptoms so far, and the deduplicated,        *)
(* truncated union exists only once the last symptom is accumulated.        *)
(***************************************************************************)
\* the call is in its union assembly or has returned its union
InUnion(r) ==
    \/ req[r].pc \in {"per_get", "per_miss", "store_union", "return_union"}
    \/ req[r].pc = "done" /\ req[r].result.via = "union"

\* the probes of the per-symptom cache the call has made
PerGets(r) ==
    LET T(e) == e.op = "get" /\ e.key.scope = "rag:per" IN SelectWhere(req[r].log, T)

\* the embedding calls the call has made
Embeds(r) ==
    LET T(e) == e.op = "embed" IN SelectWhere(req[r].log, T)

\* the number of symptoms whose per-symptom result is accumulated
Accumulated(r) ==
    IF req[r].pc \in {"per_get", "per_miss"} THEN req[r].i - 1 ELSE Len(QSyms(r))

\* the number of symptoms probed
Probed(r) == IF req[r].pc = "per_get" THEN req[r].i - 1
             ELSE IF req[r].pc = "per_miss" THEN req[r].i ELSE Len(QSyms(r))

\* the per-symptom result of the k-th symptom: the decodable entry probed, or what
\* the per-symptom retriever returns
PerResult(r, k) ==
    IF JsonDecodable(PerGets(r)[k].val) THEN JsonLoads(PerGets(r)[k].val)
    ELSE retrieve_for_single_symptom(QSyms(r)[k], req[r].lim, 0).res

\* the accumulators after k symptoms
RECURSIVE AccumOf(_, _)
AccumOf(r, k) == IF k = 0 THEN EmptyBundle ELSE Extend(AccumOf(r, k - 1), PerResult(r, k))

\* the symptoms among the first k whose probe gave no decodable entry, in order
Retrieved(r, k) ==
    LET idx == {j \in 1..k : ~JsonDecodable(PerGets(r)[j].val)}
        Pos(j) == Cardinality({m \in idx : m <= j})
    IN  [p \in 1..Cardinality(idx) |-> QSyms(r)[CHOOSE j \in idx : Pos(j) = p]]

C23_UnionAssemblyOncePerSymptom ==
    \A r \in Requests :
        InUnion(r) =>
            /\ Len(PerGets(r)) = Probed(r)
            /\ \A k \in 1..Probed(r) : PerGets(r)[k].key = _single_key("both", QSyms(r)[k])
            /\ [k \in 1..Len(Embeds(r)) |-> Embeds(r)[k].text] = Retrieved(r, Accumulated(r))
            /\ req[r].accum = AccumOf(r, Accumulated(r))
            /\ IF req[r].pc \in {"per_get", "per_miss", "store_union"}
               THEN req[r].union_res = EmptyBundle
               ELSE req[r].union_res = UnionFinal(AccumOf(r, Len(QSyms(r))), req[r].lim)

\* a call for two symptoms took the first from its per-symptom entry, retrieved
\* the second, and returned the union of both
C23_Witness ==
    \E r \in Requests :
        /\ Done(r) /\ req[r].result.via = "union"
        /\ Len(QSyms(r)) = 2
        /\ JsonDecodable(PerGets(r)[1].val)
        /\ ~JsonDecodable(PerGets(r)[2].val)
        /\ Len(Embeds(r)) = 1
        /\ Embeds(r)[1].text = QSyms(r)[2]
        /\ req[r].result.val.ctcae # <<>>

(***************************************************************************)
(* The two retrievers as functions of their arguments and of the oracle     *)
(* call that raises, if any.                                                *)
(***************************************************************************)
\* the limits of the three corpora, 0 included
RetrieveLimits == { Lim(c, q, t) : c \in {0, 2}, q \in {0, 1}, t \in {0, 1} }

RetrieveInit ==
    /\ app \in
         { [fn |-> "retrieve_for_symptoms", arg |-> symptoms, lim |-> lim, fail |-> fail,
            out |-> NoOracleRun, computed |-> FALSE] :
              symptoms \in RawInputs \cup { << <<" ">>, <<>> >> }, lim \in RetrieveLimits,
              fail \in 0..4 }
         \cup
         { [fn |-> "retrieve_for_single_symptom", arg |-> symptom, lim |-> lim, fail |-> fail,
            out |-> NoOracleRun, computed |-> FALSE] :
              symptom \in SingleInputs \cup {<<>>}, lim \in RetrieveLimits, fail \in 0..4 }
    /\ app.fail \in (IF app.fn = "retrieve_for_symptoms" THEN JointFails(app.arg, app.lim)
                     ELSE SingleFails(app.arg, app.lim))
    /\ CallsIdle
    /\ keys = NoKeys
    /\ lazy = NoLazy

\* res = retrieve_for_symptoms(symptoms, k_ctcae=..., k_questions=..., k_triage_kb=...)
ApplyJoint ==
    /\ app.fn = "retrieve_for_symptoms"
    /\ ~app.computed
    /\ app' = [app EXCEPT !.out = retrieve_for_symptoms(app.arg, app.lim, app.fail),
                          !.computed = TRUE]
    /\ UNCHANGED <<callVars, keys, lazy>>

\* res = retrieve_for_single_symptom(sym, k_ctcae=..., k_questions=..., k_triage_kb=...)
ApplySingle ==
    /\ app.fn = "retrieve_for_single_symptom"
    /\ ~app.computed
    /\ app' = [app EXCEPT !.out = retrieve_for_single_symptom(app.arg, app.lim, app.fail),
                          !.computed = TRUE]
    /\ UNCHANGED <<callVars, keys, lazy>>

RetrieveNext == ApplyJoint \/ ApplySingle

RetrieveSpec == RetrieveInit /\ [][RetrieveNext]_vars

\* the embedding calls and the queries of a corpus among the calls of a run
EmbedCalls(calls) ==
    LET T(e) == e.op = "embed" IN Len(SelectWhere(calls, T))

QueryCalls(calls, corpus) ==
    LET T(e) == e.op = "query" /\ e.corpus = corpus IN Len(SelectWhere(calls, T))

(***************************************************************************)
(* C24.  retrieve_for_symptoms on an input that normalizes to the empty     *)
(* set returns empty lists and calls no oracle.  The code tests the raw     *)
(* list only: a list of blank strings is embedded and queried.              *)
(***************************************************************************)
C24_JointShortCircuitsOnEmptySet ==
    ( /\ app.fn = "retrieve_for_symptoms" /\ app.computed
      /\ _normalize_symptoms(app.arg) = <<>> ) =>
         /\ ~app.out.raised
         /\ app.out.res = EmptyBundle
         /\ app.out.calls = <<>>

\* the part of C24 that holds: the empty list
C24_HoldsForEmptyList ==
    (app.fn = "retrieve_for_symptoms" /\ app.computed /\ app.arg = <<>>) =>
        app.out = NoOracleRun

(***************************************************************************)
(* C25.  retrieve_for_single_symptom: a symptom that normalizes to empty    *)
(* gives empty lists and no oracle call; any other gives one embedding      *)
(* call and one query for each corpus whose limit is > 0, none for a        *)
(* corpus whose limit is 0, whose list is empty.  A run in which an oracle  *)
(* call raises stops there.                                                 *)
(***************************************************************************)
C25_SingleRetrieverCalls ==
    (app.fn = "retrieve_for_single_symptom" /\ app.computed) =>
        IF NormSym(app.arg) = <<>>
        THEN app.out = NoOracleRun
        ELSE /\ EmbedCalls(app.out.calls) = 1
             /\ app.out.calls[1] = EvEmbed(NormSym(app.arg), app.fail # 1)
             /\ \A c \in SeqRange(Corpora) :
                   /\ LimitOf(app.lim, c) = 0 =>
                         QueryCalls(app.out.calls, c) = 0 /\ app.out.res[c] = <<>>
                   /\ (LimitOf(app.lim, c) > 0 /\ app.fail = 0) =>
                         /\ QueryCalls(app.out.calls, c) = 1
                         /\ Len(app.out.res[c]) <= LimitOf(app.lim, c)
                   /\ QueryCalls(app.out.calls, c) <= 1
             /\ Len(app.out.calls) = EmbedCalls(app.out.calls) +
                   QueryCalls(app.out.calls, "ctcae") + QueryCalls(app.out.calls, "questions")
                   + QueryCalls(app.out.calls, "triage_kb")
             /\ app.fail = 0 => ~app.out.raised
             /\ app.fail # 0 =>
                   /\ app.out.raised
                   /\ Len(app.out.calls) = app.fail
                   /\ ~app.out.calls[app.fail].ok

\* a run for " A" with limits 2, 0, 1 made one embedding call and two queries and
\* returned records for ctcae and triage_kb only
C25_Witness ==
    /\ app.fn = "retrieve_for_single_symptom" /\ app.computed
    /\ app.arg = <<" ", "A">>
    /\ app.lim = Lim(2, 0, 1)
    /\ app.fail = 0
    /\ Len(app.out.calls) = 3
    /\ app.out.res.ctcae # <<>>
    /\ app.out.res.questions = <<>>
    /\ app.out.res.triage_kb # <<>>

\* a blank symptom gave empty lists and no call
C25_WitnessBlank ==
    /\ app.fn = "retrieve_for_single_symptom" /\ app.computed
    /\ app.arg = <<" ">>
    /\ app.lim = Lim(2, 1, 1)
    /\ app.out = NoOracleRun

(***************************************************************************)
(* C26.  A per-symptom retrieval in which an oracle call raises is not      *)
(* retried and stores nothing.  Called on its own,                          *)
(* cached_retrieve_single_symptom raises to its caller; inside the union    *)
(* assembly the whole union is given up: the per-symptom entries already    *)
(* stored stay, the union is never stored under the combined key and no     *)
(* refresher is started.                                                    *)
(***************************************************************************)
\* the step ran a retriever in which an oracle call raised
OracleRaised(r) ==
    \E i \in 1..Len(NewEvents(r)) : IsFailedOracleCall(NewEvents(r)[i])

C26_PerSymptomFailureAbortsUnion ==
    [][\A r \in Requests :
          /\ (req[r].pc \in {"per_miss", "single_miss"} /\ OracleRaised(r)) =>
                /\ store' = store
                /\ bg' = bg
                /\ \E fail \in 1..NumOracleCalls(req[r].lim) :
                      NewEvents(r) =
                         retrieve_for_single_symptom(
                            IF req[r].pc = "per_miss" THEN CurSym(r) ELSE SingleSym(r),
                            req[r].lim, fail).calls
                /\ req[r].pc = "per_miss" =>
                      /\ req'[r].pc = "fallback"
                      /\ req'[r].accum = req[r].accum
                      /\ req'[r].union_res = EmptyBundle
                /\ req[r].pc = "single_miss" =>
                      /\ req'[r].pc = "done"
                      /\ req'[r].result.kind = "raise"
          /\ (req[r].pc = "fallback" /\ Steps(r)) =>
                /\ bg' = bg
                /\ bg[r].pc = "none"
                /\ Spawns(r) = <<>>
                /\ CombinedStores(r) = <<>>
                /\ \A k \in DOMAIN store :
                      (k # CombinedKey(r)) => (k \in DOMAIN store' /\ store'[k] = store[k])]_vars

\* the retrieval of the second of two symptoms raised; the entry stored for the
\* first is in place and the call returned the exact result
C26_Witness ==
    \E r \in Requests :
        /\ Done(r) /\ req[r].result.via = "fallback"
        /\ Len(QSyms(r)) = 2
        /\ OracleFailures(r) = 1
        /\ Len(PerGets(r)) = 2
        /\ \E i \in 1..Len(req[r].log) :
              /\ req[r].log[i].op = "setex" /\ req[r].log[i].ok
              /\ req[r].log[i].key = _single_key("both", QSyms(r)[1])
              /\ req[r].log[i].key \in DOMAIN store
              /\ store[req[r].log[i].key].raw = req[r].log[i].val
        /\ bg[r].pc = "none"

(***************************************************************************)
(* The lazily initialized clients: _oa_client (as _pc_client and _index,    *)
(* the same three lines) and _cache_client, called by several threads.      *)
(* A step is what a thread does between two accesses of a module global.    *)
(* An instance is numbered by its construction; 0 is None.                  *)
(***************************************************************************)
Threads == 1..MaxThreads

LazyInit ==
    /\ lazy \in
         { [_oa |-> 0, _cache |-> 0, made_oa |-> 0, made_cache |-> 0, pings |-> 0,
            probed |-> {}, fn |-> fn,
            pc |-> [t \in Threads |-> IF fn[t] = "_oa_client" THEN "oa_check" ELSE "check"],
            ret |-> [t \in Threads |-> 0]] :
              fn \in [Threads -> {"_oa_client", "_cache_client"}] }
    /\ redisUrl = TRUE
    /\ cache = "None"
    /\ store = EmptyStore
    /\ req = [r \in Requests |-> IdleReq]
    /\ bg = [r \in Requests |-> NoBg]
    /\ faults = 0
    /\ keys = NoKeys
    /\ app = NoApp

\* line 42: if _oa is None
OaCheck(t) ==
    /\ lazy.pc[t] = "oa_check"
    /\ lazy' = [lazy EXCEPT !.pc[t] = IF lazy._oa = 0 THEN "oa_make" ELSE "oa_return"]
    /\ UNCHANGED <<callVars, keys, app>>

\* line 44: _oa = OpenAI(...)
OaMake(t) ==
    /\ lazy.pc[t] = "oa_make"
    /\ lazy' = [lazy EXCEPT !.made_oa = @ + 1, !._oa = lazy.made_oa + 1,
                            !.pc[t] = "oa_return"]
    /\ UNCHANGED <<callVars, keys, app>>

\* line 45: return _oa
OaReturn(t) ==
    /\ lazy.pc[t] = "oa_return"
    /\ lazy' = [lazy EXCEPT !.ret[t] = lazy._oa, !.pc[t] = "done"]
    /\ UNCHANGED <<callVars, keys, app>>

\* line 51: if _cache is None and REDIS_URL and Redis is not None
CacheCheck(t) ==
    /\ lazy.pc[t] = "check"
    /\ lazy' = [lazy EXCEPT !.pc[t] = IF lazy._cache = 0 /\ redisUrl THEN "from_url"
                                      ELSE "return"]
    /\ UNCHANGED <<callVars, keys, app>>

\* line 54: _cache = Redis.from_url(REDIS_URL)
CacheFromUrl(t) ==
    /\ lazy.pc[t] = "from_url"
    /\ lazy' = [lazy EXCEPT !.made_cache = @ + 1, !._cache = lazy.made_cache + 1,
                            !.pc[t] = "ping"]
    /\ UNCHANGED <<callVars, keys, app>>

\* line 56: _cache.ping(), on what the global holds now; on None, or when the ping
\* raises, the except clause is entered
CachePing(t) ==
    /\ lazy.pc[t] = "ping"
    /\ IF lazy._cache = 0
       THEN lazy' = [lazy EXCEPT !.pc[t] = "reset"]
       ELSE \E ok \in BOOLEAN :
              lazy' = [lazy EXCEPT !.pings = @ + 1,
                                   !.probed = IF ok THEN @ \cup {lazy._cache} ELSE @,
                                   !.pc[t] = IF ok THEN "return" ELSE "reset"]
    /\ UNCHANGED <<callVars, keys, app>>

\* lines 58-60: except: _cache = None
CacheReset(t) ==
    /\ lazy.pc[t] = "reset"
    /\ lazy' = [lazy EXCEPT !._cache = 0, !.pc[t] = "return"]
    /\ UNCHANGED <<callVars, keys, app>>

\* line 68: return _cache
CacheReturn(t) ==
    /\ lazy.pc[t] = "return"
    /\ lazy' = [lazy EXCEPT !.ret[t] = lazy._cache, !.pc[t] = "done"]
    /\ UNCHANGED <<callVars, keys, app>>

LazyNext ==
    \/ \E t \in Threads : OaCheck(t)
    \/ \E t \in Threads : OaMake(t)
    \/ \E t \in Threads : OaReturn(t)
    \/ \E t \in Threads : CacheCheck(t)
    \/ \E t \in Threads : CacheFromUrl(t)
    \/ \E t \in Threads : CachePing(t)
    \/ \E t \in Threads : CacheReset(t)
    \/ \E t \in Threads : CacheReturn(t)

LazySpec == LazyInit /\ [][LazyNext]_vars

(***************************************************************************)
(* C27.  Each client is constructed at most once, also when threads call    *)
(* the accessor concurrently for the first time, and all callers get the    *)
(* same instance.  The accessors test and assign the global without a       *)
(* lock.                                                                    *)
(***************************************************************************)
C27_ConstructedAtMostOnce ==
    /\ lazy.made_oa <= 1
    /\ \A t1, t2 \in Threads :
          ( /\ lazy.fn[t1] = "_oa_client" /\ lazy.fn[t2] = "_oa_client"
            /\ lazy.pc[t1] = "done" /\ lazy.pc[t2] = "done" ) =>
              lazy.ret[t1] = lazy.ret[t2]

(***************************************************************************)
(* C28.  The connectivity probe of the cache client is issued at most once  *)
(* in a process, and a client whose probe has not returned is never         *)
(* returned to a caller.  A failed probe resets the global, so the next     *)
(* call probes again; and the global is assigned before the probe.          *)
(***************************************************************************)
C28_ProbedOnceNeverUnprobed ==
    /\ lazy.pings <= 1
    /\ \A t \in Threads :
          (lazy.fn[t] = "_cache_client" /\ lazy.pc[t] = "done" /\ lazy.ret[t] # 0) =>
              lazy.ret[t] \in lazy.probed

\* the first half of C28 alone: at most one probe
C28_ProbedOnce == lazy.pings <= 1

\* the second half of C28 alone: no client returned before its probe returned
C28_NeverUnprobed ==
    \A t \in Threads :
        (lazy.fn[t] = "_cache_client" /\ lazy.pc[t] = "done" /\ lazy.ret[t] # 0) =>
            lazy.ret[t] \in lazy.probed

(***************************************************************************)
(* The two tiers of the cache.                                             *)
(***************************************************************************)
\* the key as Redis receives it: the fields the f-strings of lines 87 and 97 put
\* between colons (the prefix "both" and a hexadecimal digest hold no colon)
KeyFields(k) ==
    IF k.scope = "rag:per" THEN <<"rag", "per", k.prefix, k.h, k.ver>>
    ELSE <<"rag", k.prefix, k.h, k.ver>>

\* the symptoms of the calls, raw and normalized
AllSymptoms ==
    UNION { SeqRange(S) \cup SeqRange(_normalize_symptoms(S)) : S \in RawInputs }

\* line 178: the keys of the per-symptom tier; line 357: those of the combined tier
PerKeys == { _single_key("both", s) : s \in AllSymptoms }
CombinedKeys == { _key("both", S) : S \in RawInputs }

\* what a store holds under a key
Entry(st, k) == IF k \in DOMAIN st THEN st[k] ELSE NoVal

(***************************************************************************)
(* C29.  The per-symptom key of a symptom differs from the combined key of  *)
(* every symptom set, the set of that symptom alone included; the store of  *)
(* a per-symptom result changes no combined entry; the store of a union,    *)
(* of a fallback result or of a refresher changes no per-symptom entry and  *)
(* no combined entry but that of its own key.                               *)
(***************************************************************************)
C29_TiersDisjoint ==
    [][ /\ \A kp \in PerKeys, kc \in CombinedKeys : KeyFields(kp) # KeyFields(kc)
        /\ \A k1, k2 \in DOMAIN store' : KeyFields(k1) = KeyFields(k2) => k1 = k2
        /\ \A r \in Requests :
              (req[r].pc = "per_miss" /\ req'[r] # req[r]) =>
                  \A k \in CombinedKeys : Entry(store', k) = Entry(store, k)
        /\ \A r \in Requests :
              (req[r].pc \in {"store_union", "fallback"} /\ req'[r] # req[r]) =>
                  \A k \in PerKeys \cup (CombinedKeys \ {CombinedKey(r)}) :
                      Entry(store', k) = Entry(store, k)
        /\ \A r \in Requests :
              (bg[r].pc = "running" /\ bg'[r] # bg[r]) =>
                  \A k \in PerKeys \cup (CombinedKeys \ {bg[r].combined_key}) :
                      Entry(store', k) = Entry(store, k)
      ]_vars

\* the store holds the per-symptom entry of a symptom and the combined entry of the
\* set of that symptom alone, computed from the same digest, after a union was
\* returned and its refresher has stored
C29_Witness ==
    \E kp \in PerKeys \cap DOMAIN store, kc \in CombinedKeys \cap DOMAIN store :
        /\ kp.h = kc.h
        /\ store[kp].src.kind = "per"
        /\ store[kc].src.kind = "exact"
        /\ \E r \in Requests :
              /\ req[r].pc = "done" /\ req[r].result.via = "union"
              /\ bg[r].pc = "done" /\ bg[r].combined_key = kc

(***************************************************************************)
(* _normalize_symptoms on its own, applied to two raw lists and to its own  *)
(* result.                                                                  *)
(***************************************************************************)
NormInit ==
    /\ app \in { [fn |-> "_normalize_symptoms", x |-> x, y |-> y,
                  nx |-> <<>>, ny |-> <<>>, nnx |-> <<>>, computed |-> FALSE] :
                    x \in KeyInputs, y \in KeyInputs }
    /\ CallsIdle
    /\ keys = NoKeys
    /\ lazy = NoLazy

\* norm = _normalize_symptoms(symptoms), as lines 85, 283 and 351 call it
ApplyNormalize ==
    /\ app.fn = "_normalize_symptoms"
    /\ ~app.computed
    /\ app' = [app EXCEPT !.nx = _normalize_symptoms(app.x),
                          !.ny = _normalize_symptoms(app.y),
                          !.nnx = _normalize_symptoms(_normalize_symptoms(app.x)),
                          !.computed = TRUE]
    /\ UNCHANGED <<callVars, keys, lazy>>

NormNext == ApplyNormalize

NormSpec == NormInit /\ [][NormNext]_vars

\* y is x with its elements in another order
IsPermutation(x, y) ==
    /\ Len(x) = Len(y)
    /\ \E f \in [1..Len(x) -> 1..Len(x)] :
          /\ \A i, j \in 1..Len(x) : f[i] = f[j] => i = j
          /\ \A i \in 1..Len(x) : y[i] = x[f[i]]

(***************************************************************************)
(* C30.  Normalizing a normalized list gives it back; two raw lists that    *)
(* differ by the order, the case or the surrounding whitespace of their     *)
(* elements, by repeated elements or by blank strings normalize to the same *)
(* list; the result is sorted, without duplicates and without the empty     *)
(* string.                                                                  *)
(***************************************************************************)
C30_NormalizeIdempotentOrderInsensitive ==
    app.fn = "_normalize_symptoms" /\ app.computed =>
        /\ app.nnx = app.nx
        /\ IsPermutation(app.x, app.y) => app.ny = app.nx
        /\ SymptomSetOf(app.x) = SymptomSetOf(app.y) => app.ny = app.nx
        /\ \A i, j \in 1..Len(app.nx) : i < j => StrLess(app.nx[i], app.nx[j])
        /\ \A i, j \in 1..Len(app.nx) : app.nx[i] = app.nx[j] => i = j
        /\ \A i \in 1..Len(app.nx) : app.nx[i] # <<>>
        /\ SeqRange(app.nx) = SymptomSetOf(app.x)

\* two lists of two elements with different normalized labels, the second the first
\* in the other order, in another case, padded, and both results hold two labels
C30_Witness ==
    /\ app.fn = "_normalize_symptoms" /\ app.computed
    /\ app.x = << <<"b">>, <<"a">> >>
    /\ app.y = << <<" ", "A", " ">>, <<"B">> >>
    /\ Len(app.nx) = 2

\* a list with a repeated element and one with a blank string, against the plain list
C30_WitnessDuplicateBlank ==
    /\ app.fn = "_normalize_symptoms" /\ app.computed
    /\ app.x \in { << <<"a">>, <<"a">> >>, << <<" ">>, <<"a">> >> }
    /\ app.y = << <<"a">> >>
    /\ app.nx = app.ny /\ Len(app.nx) = 1

(***************************************************************************)
(* The refreshers as threads the scheduler runs: a started thread that can  *)
(* take a step takes it, whatever the calls do.  The calls get no fairness: *)
(* a caller may stop anywhere.                                              *)
(***************************************************************************)
\* the calls of these runs: the empty list and a list of two symptoms
LiveInputs == { <<>>, << <<"B">>, <<"a", " ">> >> }

LiveStart(r) == Start(r) /\ req'[r].symptoms \in LiveInputs

LiveNext ==
    \/ \E r \in Requests : LiveStart(r)
    \/ \E r \in Requests : GetCombined(r)
    \/ \E r \in Requests : PerGet(r)
    \/ \E r \in Requests : PerMiss(r)
    \/ \E r \in Requests : StoreUnion(r)
    \/ \E r \in Requests : ReturnUnion(r)
    \/ \E r \in Requests : Fallback(r)
    \/ \E r \in Requests : RefreshRetrieve(r)
    \/ \E r \in Requests : RefreshStore(r)
    \/ \E k \in DOMAIN store : Expire(k)

\* RefreshRetrieve(r) can be taken exactly when the thread stands before its
\* retrieval: its choice of fail always holds 0, and the step changes bg[r]
RetrieveEnabled(r) == bg[r].pc = "spawned"

\* weak fairness of the two steps of every thread; that of RefreshRetrieve is written
\* out, with RetrieveEnabled for the enabledness of the step
LiveSpec ==
    /\ Init
    /\ [][LiveNext]_vars
    /\ \A r \in Requests :
          /\ ([]<>(~RetrieveEnabled(r)) \/ []<><<RefreshRetrieve(r)>>_vars)
          /\ WF_vars(RefreshStore(r))

\* the exact retrievals a thread has made (each embeds once) and its cache writes
BgRetrievals(r) == LET T(e) == e.op = "embed" IN CountWhere(bg[r].log, T)
BgWrites(r) == LET T(e) == e.op = "setex" IN CountWhere(bg[r].log, T)

\* the thread has ended
BgEnded(r) == bg[r].pc \in {"done", "failed"}

(***************************************************************************)
(* C31.  A refresher makes at most one exact joint retrieval and at most    *)
(* one cache write, an ended refresher does nothing more, and every         *)
(* refresher that was started ends, whether or not any call goes on.        *)
(***************************************************************************)
C31_RefresherEndsAfterOneRetrievalOneWrite ==
    /\ [](\A r \in Requests : BgRetrievals(r) <= 1 /\ BgWrites(r) <= 1)
    /\ [][\A r \in Requests : BgEnded(r) => bg'[r] = bg[r]]_vars
    /\ \A r \in Requests : (bg[r].pc = "spawned") ~> BgEnded(r)

\* a refresher has ended after one retrieval and one write while the next call,
\* started after it, has not returned
C31_Witness ==
    /\ bg[1].pc = "done" /\ BgRetrievals(1) = 1 /\ BgWrites(1) = 1
    /\ req[2].pc \notin {"idle", "done"}

(***************************************************************************)
(* Calls made by concurrent request threads: a call may be entered while    *)
(* another is under way.                                                    *)
(***************************************************************************)
\* the calls of these runs: the empty list and a list of two symptoms
ConcInputs == { <<>>, << <<"B">>, <<"a", " ">> >> }

\* a cache backend is configured and holds nothing yet
ConcInit == Init /\ redisUrl /\ store = EmptyStore

ConcEnter(r) == Enter(r) /\ req'[r].symptoms \in ConcInputs

ConcNext ==
    \/ \E r \in Requests : ConcEnter(r)
    \/ \E r \in Requests : GetCombined(r)
    \/ \E r \in Requests : PerGet(r)
    \/ \E r \in Requests : PerMiss(r)
    \/ \E r \in Requests : StoreUnion(r)
    \/ \E r \in Requests : ReturnUnion(r)
    \/ \E r \in Requests : Fallback(r)
    \/ \E r \in Requests : RefreshRetrieve(r)
    \/ \E r \in Requests : RefreshStore(r)
    \/ \E k \in DOMAIN store : Expire(k)

ConcSpec == ConcInit /\ [][ConcNext]_vars

\* every call made has returned or raised, and every thread started has ended well
AllFinished ==
    \A r \in Requests : req[r].pc \in {"idle", "done"} /\ bg[r].pc \in {"none", "done"}

\* no store of a call or of a thread raised
NoStoreFailed ==
    LET T(e) == e.op = "setex" /\ ~e.ok IN
    \A r \in Requests : CountWhere(req[r].log, T) = 0 /\ CountWhere(bg[r].log, T) = 0

\* the call missed the combined cache, stored its union and started its thread
MissedAndSpawned(r) == Len(Spawns(r)) = 1

(***************************************************************************)
(* C32.  Once every call and every refresher has finished, no refresher     *)
(* and no store having failed, the combined entry of a call that returned   *)
(* with a cache client, if still there, holds the exact joint result for    *)
(* the call's symptom set and for the limits of one of the calls for that    *)
(* key, not a union; the calls may overlap in any way.                      *)
(***************************************************************************)
C32_ConvergesToExact ==
    (AllFinished /\ NoStoreFailed) =>
        \A r \in Requests :
            ( /\ Done(r) /\ HadCache(r) /\ req[r].result.kind = "ok"
              /\ CombinedKey(r) \in DOMAIN store ) =>
                /\ store[CombinedKey(r)].src.kind = "exact"
                /\ store[CombinedKey(r)].src.syms = QSyms(r)
                /\ \E r2 \in Requests :
                      /\ Done(r2) /\ CombinedKey(r2) = CombinedKey(r)
                      /\ store[CombinedKey(r)].raw =
                            JsonDumps(retrieve_for_symptoms(req[r2].symptoms, req[r2].lim, 0).res)

\* two overlapping calls for the two symptoms both missed, both stored their union
\* and both started a refresher; all have finished without a fault
C32_Witness ==
    /\ AllFinished /\ NoStoreFailed /\ faults = 0
    /\ Len(QSyms(1)) = 2 /\ QSyms(2) = QSyms(1)
    /\ MissedAndSpawned(1) /\ MissedAndSpawned(2)
    /\ CombinedKey(1) \in DOMAIN store
    /\ store[CombinedKey(1)].src.kind = "exact"

\* the step replaces the exact entry under the key by a union
UnionReplacesExact(k) ==
    /\ k \in DOMAIN store /\ store[k].src.kind = "exact"
    /\ k \in DOMAIN store' /\ store'[k].src.kind = "union"

(***************************************************************************)
(* C33, as stated.  An exact combined entry is never replaced by a union    *)
(* while it is there.                                                       *)
(***************************************************************************)
C33_ExactNeverReplacedByUnion ==
    [][\A k \in DOMAIN store : ~UnionReplacesExact(k)]_vars

(***************************************************************************)
(* C33, amended.  An exact combined entry is replaced by a union only by    *)
(* the union store of a call for that key whose probe of the combined       *)
(* cache did not return that entry (the probe came before the exact store,  *)
(* or raised), and the same step starts a refresher for the key with the    *)
(* call's symptoms and limits: the last store wins.                         *)
(***************************************************************************)
C33_ExactReplacedOnlyByCallThatMissedIt ==
    [][\A k \in DOMAIN store :
          UnionReplacesExact(k) =>
              \E r \in Requests :
                  /\ req[r].pc = "store_union" /\ Steps(r)
                  /\ CombinedKey(r) = k
                  /\ req[r].log[1].op = "get"
                  /\ req[r].log[1].val # store[k].raw
                  /\ bg'[r].pc = "spawned"
                  /\ bg'[r].combined_key = k
                  /\ bg'[r].symptoms = req[r].symptoms
                  /\ bg'[r].lim = req[r].lim
      ]_vars

\* with no fault and no expiry, the entry of two overlapping calls holds the union of
\* the second while the refresher of the first has stored its exact result
C33_Witness ==
    /\ faults = 0
    /\ \E r1, r2 \in Requests :
          /\ r1 # r2
          /\ bg[r1].pc = "done" /\ BgWrites(r1) = 1
          /\ MissedAndSpawned(r2) /\ bg[r2].pc \in {"spawned", "running"}
          /\ CombinedKey(r2) = bg[r1].combined_key
          /\ CombinedKey(r2) \in DOMAIN store
          /\ store[CombinedKey(r2)].src.kind = "union"
          /\ store[CombinedKey(r2)].raw # JsonDumps(bg[r1].res)

\* the call asked for the corpus and the index has matches of it for the call's symptoms
AskedAndMatched(r, c) ==
    /\ LimitOf(req[r].lim, c) > 0
    /\ retrieve_for_symptoms(req[r].symptoms, req[r].lim, 0).res[c] # <<>>

(***************************************************************************)
(* C34.  A call that returns holds records of every corpus it asked for     *)
(* and for which the index has matches, whatever limits the calls before    *)
(* it were made with.                                                       *)
(***************************************************************************)
C34_ReturnsTheCorporaAskedFor ==
    \A r \in Requests :
        (Done(r) /\ req[r].result.kind = "ok") =>
            \A c \in SeqRange(Corpora) :
                AskedAndMatched(r, c) => req[r].result.val[c] # <<>>

\* the same of the first call alone, made on a store that holds no decodable entry
C34_HoldsForFirstCall ==
    (Done(1) /\ req[1].result.kind = "ok") =>
        \A c \in SeqRange(Corpora) :
            AskedAndMatched(1, c) => req[1].result.val[c] # <<>>

\* a first call that asked for a corpus with matches and returned records of it
C34_WitnessFirstCall ==
    /\ Done(1) /\ req[1].result.kind = "ok" /\ req[1].result.via = "union"
    /\ \E c \in SeqRange(Corpora) : AskedAndMatched(1, c)

\* with no fault: the second call asks for other corpora than the first, for the same
\* symptoms, and is served the entry of the first, which holds none of their records
C34_StaleLimitsServed ==
    /\ faults = 0
    /\ Done(1) /\ Done(2) /\ QSyms(1) = QSyms(2) /\ req[1].lim # req[2].lim
    /\ req[2].result.kind = "ok" /\ HitSeen(2)
    /\ \E c \in SeqRange(Corpora) : AskedAndMatched(2, c) /\ req[2].result.val[c] = <<>>

\* a thread was started for the call
Launched(r) == bg[r].pc # "none"

\* the call had a cache client, its probe of the combined cache was no decodable hit,
\* and it came to the end of the union with no oracle call having raised
SuccessfulMiss(r) ==
    /\ HadCache(r) /\ ~HitSeen(r)
    /\ req[r].pc \in {"return_union", "done"}
    /\ OracleFailures(r) = 0

(***************************************************************************)
(* C35.  A refresher is started by a call exactly when the call missed the  *)
(* combined cache and its union assembly succeeded, and then once: none on  *)
(* a hit, none without a cache client, none on the fallback path; so the    *)
(* refreshers started are as many as those calls.                           *)
(***************************************************************************)
C35_RefresherOnlyAfterSuccessfulMiss ==
    /\ \A r \in Requests :
          /\ Launched(r) <=> SuccessfulMiss(r)
          /\ Len(Spawns(r)) = (IF SuccessfulMiss(r) THEN 1 ELSE 0)
          /\ (Done(r) /\ req[r].result.via \in {"hit", "direct", "fallback", "get"}) =>
                ~Launched(r)
          /\ (Done(r) /\ Launched(r)) =>
                req[r].result.kind = "ok" /\ req[r].result.via = "union"
    /\ Cardinality({r \in Requests : Launched(r)})
          = Cardinality({r \in Requests : SuccessfulMiss(r)})

\* of two calls the first went through the fallback and the second hit the entry the
\* first stored: no refresher
C35_WitnessNone ==
    /\ Done(1) /\ req[1].result.kind = "ok" /\ req[1].result.via = "fallback"
    /\ Done(2) /\ req[2].result.via = "hit"
    /\ ~Launched(1) /\ ~Launched(2)

\* a call with no cache client started none; the next, with a client, missed,
\* assembled its union and started one
C35_Witness ==
    /\ Done(1) /\ req[1].result.via = "direct" /\ ~Launched(1)
    /\ Done(2) /\ req[2].result.via = "union" /\ Launched(2) /\ Len(Spawns(2)) = 1

(***************************************************************************)
(* clear_rag_cache, a script run as a process of its own against the same   *)
(* store while the calls and refreshers of the server go on.  Every key of  *)
(* the store begins with "rag:".  A step is one command sent to Redis.      *)
(***************************************************************************)
\* the script before its first line; before holds the calls entered when it returned,
\* running the threads that then held a result not yet stored
ClearIdle == [fn |-> "clear_rag_cache", pc |-> "start", rag_keys |-> {}, ret |-> "none",
              before |-> {}, running |-> {}]

ClearInit ==
    /\ app = ClearIdle
    /\ redisUrl \in BOOLEAN
    /\ cache = "None"
    /\ store = EmptyStore
    /\ req = [r \in Requests |-> IdleReq]
    /\ bg = [r \in Requests |-> NoBg]
    /\ faults = 0
    /\ keys = NoKeys
    /\ lazy = NoLazy

\* the script returns
ClearReturns(value) ==
    [app EXCEPT !.pc = "done", !.ret = value,
                !.before = {r \in Requests : req[r].pc # "idle"},
                !.running = {r \in Requests : bg[r].pc = "running"}]

\* lines 15-25 and 53-55: no REDIS_URL, or the connection fails: return False
ClearConnect ==
    /\ app.pc = "start"
    /\ \E ok \in Outcomes :
         /\ app' = IF redisUrl /\ ok THEN [app EXCEPT !.pc = "keys"] ELSE ClearReturns("False")
         /\ faults' = faults + (IF redisUrl THEN Cost(ok) ELSE 0)
    /\ UNCHANGED <<redisUrl, cache, store, req, bg, keys, lazy>>

\* lines 28-32: rag_keys = r.keys("rag:*"); with none, return True
ClearKeys ==
    /\ app.pc = "keys"
    /\ \E ok \in Outcomes :
         /\ app' = IF ~ok THEN ClearReturns("False")
                   ELSE IF DOMAIN store = {} THEN ClearReturns("True")
                   ELSE [app EXCEPT !.pc = "delete", !.rag_keys = DOMAIN store]
         /\ faults' = faults + Cost(ok)
    /\ UNCHANGED <<redisUrl, cache, store, req, bg, keys, lazy>>

\* lines 38-40: r.delete(key) for the keys of the list, one command each
ClearDelete ==
    /\ app.pc = "delete"
    /\ \E k \in app.rag_keys, ok \in Outcomes :
         /\ app' = IF ~ok THEN ClearReturns("False")
                   ELSE [app EXCEPT !.rag_keys = @ \ {k},
                                    !.pc = IF app.rag_keys = {k} THEN "verify" ELSE "delete"]
         /\ store' = IF ok THEN [j \in DOMAIN store \ {k} |-> store[j]] ELSE store
         /\ faults' = faults + Cost(ok)
    /\ UNCHANGED <<redisUrl, cache, req, bg, keys, lazy>>

\* lines 45-51: remaining_keys = r.keys("rag:*") is printed only; return True
ClearVerify ==
    /\ app.pc = "verify"
    /\ \E ok \in Outcomes :
         /\ app' = ClearReturns(IF ok THEN "True" ELSE "False")
         /\ faults' = faults + Cost(ok)
    /\ UNCHANGED <<redisUrl, cache, store, req, bg, keys, lazy>>

\* the calls of these runs: the empty list and a list of one symptom
ClearInputs == { <<>>, << <<" ", "A">> >> }

ClearStart(r) == Start(r) /\ req'[r].symptoms \in ClearInputs

ClearNext ==
    \/ \E r \in Requests : ClearStart(r)
    \/ \E r \in Requests : GetCombined(r)
    \/ \E r \in Requests : PerGet(r)
    \/ \E r \in Requests : PerMiss(r)
    \/ \E r \in Requests : StoreUnion(r)
    \/ \E r \in Requests : ReturnUnion(r)
    \/ \E r \in Requests : Fallback(r)
    \/ \E r \in Requests : RefreshRetrieve(r)
    \/ \E r \in Requests : RefreshStore(r)
    \/ \E k \in DOMAIN store : Expire(k)
    \/ ClearConnect
    \/ ClearKeys
    \/ ClearDelete
    \/ ClearVerify

ClearSpec == ClearInit /\ [][ClearNext]_vars

\* the script has returned True
Cleared == app.fn = "clear_rag_cache" /\ app.pc = "done" /\ app.ret = "True"

\* the call was entered after the script returned and is the first such call
FirstAfterClear(r) ==
    /\ Cleared
    /\ req[r].pc # "idle"
    /\ r \notin app.before
    /\ \A r2 \in Requests \ {r} : r2 \in app.before \/ req[r2].pc = "idle"

(***************************************************************************)
(* C36.  When clear_rag_cache returns True the store holds no key, and the  *)
(* first call entered after that is not served an entry from the combined   *)
(* cache (every entry there was computed before the clear), also with       *)
(* calls and refreshers under way that started before the clear.            *)
(***************************************************************************)
C36_ClearLeavesNothingStale ==
    [][ /\ (app.pc # "done" /\ app'.pc = "done" /\ app'.ret = "True") => DOMAIN store' = {}
        /\ \A r \in Requests : FirstAfterClear(r) => ~HitSeen(r)
      ]_vars

\* the first half alone: nothing remains when the script returns True
C36_NothingRemainsAtReturn ==
    [][(app.pc # "done" /\ app'.pc = "done" /\ app'.ret = "True") => DOMAIN store' = {}]_vars

\* the second half alone: the first call after the clear is served no cached entry
C36_NextCallServedFresh ==
    \A r \in Requests : FirstAfterClear(r) => ~HitSeen(r)


\* with no fault: a refresher that held its result when the script returned True has
\* stored it since, and the first call entered after the clear was served that entry
C36_StaleServedAfterClear ==
    /\ faults = 0
    /\ \E r1 \in app.running, r2 \in Requests :
          /\ bg[r1].pc = "done" /\ BgWrites(r1) = 1
          /\ FirstAfterClear(r2) /\ Done(r2) /\ HitSeen(r2)
          /\ CombinedKey(r2) = bg[r1].combined_key
          /\ req[r2].result.val = bg[r1].res
          /\ bg[r1].res # EmptyBundle

=============================================================================
